---------------------------- MODULE Spec2Model ----------------------------
(***************************************************************************)
(* Model of the pdf-chunk-extractor library: the text processor            *)
(* (pkg/utils), the chunker (pkg/chunker) and the configuration.           *)
(*                                                                         *)
(* A Go string is modelled as a sequence of characters, each character a   *)
(* one-element TLA+ string.  Characters that take more than one byte in    *)
(* UTF-8 are written by code point ("U+2022" is the bullet), and ByteLen   *)
(* gives their width, because Go's len() and strings.Builder.Len() count   *)
(* bytes.  Go indexes are 0-based and kept so where the code passes them   *)
(* around; TLA+ sequences are 1-based.                                     *)
(***************************************************************************)
EXTENDS Integers, Sequences, FiniteSets, TLC

VARIABLES
    maxChunkSize,    \* TextProcessor.maxChunkSize (config.MaxChunkSize)
    localChunkSize,  \* TextProcessor.localChunkSize (config.LocalChunkSize)
    text,            \* the text the running call works on
    lines,           \* SplitTextIntoLocalChunks: strings.Split(text, "\n")
    li,              \* SplitTextIntoLocalChunks: loop index i (0-based)
    currentChunk,    \* SplitTextIntoLocalChunks: the strings.Builder
    chunks,          \* SplitTextIntoLocalChunks: the chunks appended so far
    written,         \* the line most recently written to currentChunk
    aiProvider,      \* Chunker.aiProvider: "nil", "plain" or "usage"
    call,            \* the entry point called and its input
    filename,        \* ChunkInput: the file name the input gave
    textChunks,      \* createAIChunks: the blocks of SplitTextIntoChunks
    bi,              \* createAIChunks: loop index i (0-based)
    records,         \* the []ChunkData built so far
    totalTokenUsage, \* createAIChunksWithUsage: the running TokenUsage
    aiCalls,         \* the texts the AI provider was called with, in order
    aiResults,       \* what the AI provider answered to each call, in order
    writes,          \* the files written, in order
    segmented,       \* the texts handed to a splitter by the Chunker, in order
    ret,             \* what the entry point returned
    result,          \* what a text-processor function called directly returned
    callLog,         \* the calls made on one TextProcessor with their results, in order
    tempFiles,       \* the working directory: the file behind each temp_page_<i>.png
    inodes,          \* the contents of the files created, by file
    ocr,             \* the state of each PDF extraction that runs OCR
    pc               \* position of the running call

cfgVars == <<maxChunkSize, localChunkSize>>
segVars == <<lines, li, currentChunk, chunks, written>>
chunkerVars == <<aiProvider, call, callLog, filename, textChunks, bi, records,
                 totalTokenUsage, aiCalls, aiResults, writes, segmented, ret>>

ocrVars == <<tempFiles, inodes, ocr>>

vars == <<cfgVars, text, segVars, chunkerVars, result, ocrVars, pc>>

-----------------------------------------------------------------------------
(* Characters and strings *)

UpperChars == {"A","B","C","D","E","F","G","H","I","J","K","L","M",
               "N","O","P","Q","R","S","T","U","V","W","X","Y","Z"}

LowerChars == {"a","b","c","d","e","f","g","h","i","j","k","l","m",
               "n","o","p","q","r","s","t","u","v","w","x","y","z"}

DigitChars == {"0","1","2","3","4","5","6","7","8","9"}

\* \s of Go's regexp syntax: [\t\n\f\r ]
ReSpace == {" ", "\t", "\n", "\f", "\r"}

\* unicode.IsSpace, which strings.TrimSpace uses: \s, vertical tab, NEL, NBSP
UnicodeSpace == ReSpace \cup {"U+000B", "U+0085", "U+00A0"}

\* UTF-8 width of a character
ByteLen(c) ==
    IF c \in {"U+2022", "U+2013"} THEN 3
    ELSE IF c \in {"U+0085", "U+00A0"} THEN 2
    ELSE 1

\* Go's len(s): the number of bytes
RECURSIVE StrLen(_)
StrLen(s) == IF s = <<>> THEN 0 ELSE ByteLen(Head(s)) + StrLen(Tail(s))

\* number of consecutive characters of class cls in s from position from
RECURSIVE Span(_, _, _)
Span(s, from, cls) ==
    IF from >= 1 /\ from <= Len(s) /\ s[from] \in cls
    THEN 1 + Span(s, from + 1, cls)
    ELSE 0

\* number of consecutive characters of class cls in s backwards from position to
RECURSIVE SpanBack(_, _, _)
SpanBack(s, to, cls) ==
    IF to >= 1 /\ to <= Len(s) /\ s[to] \in cls
    THEN 1 + SpanBack(s, to - 1, cls)
    ELSE 0

\* strings.TrimSpace
TrimSpace(s) ==
    LET lead == Span(s, 1, UnicodeSpace)
    IN  IF lead = Len(s) THEN <<>>
        ELSE SubSeq(s, lead + 1, Len(s) - SpanBack(s, Len(s), UnicodeSpace))

\* strings.HasPrefix
HasPrefix(s, p) == Len(p) <= Len(s) /\ SubSeq(s, 1, Len(p)) = p

\* strings.HasSuffix
HasSuffix(s, p) == Len(p) <= Len(s) /\ SubSeq(s, Len(s) - Len(p) + 1, Len(s)) = p

\* the substring p occurs in s at position k (1-based)
OccursAt(s, p, k) == k >= 1 /\ k + Len(p) - 1 <= Len(s) /\ SubSeq(s, k, k + Len(p) - 1) = p

\* strings.Contains
Contains(s, p) == \E k \in 1..(Len(s) + 1) : OccursAt(s, p, k)

\* strings.Split(s, "\n"): always at least one line
RECURSIVE SplitLines(_)
SplitLines(s) ==
    LET n == Span(s, 1, {c \in {s[k] : k \in 1..Len(s)} : c # "\n"})
    IN  IF n = Len(s) THEN <<s>>
        ELSE <<SubSeq(s, 1, n)>> \o SplitLines(SubSeq(s, n + 2, Len(s)))

\* the inverse of SplitLines: the lines joined with "\n"
RECURSIVE JoinLines(_)
JoinLines(ls) ==
    IF ls = <<>> THEN <<>>
    ELSE IF Len(ls) = 1 THEN ls[1]
    ELSE ls[1] \o <<"\n">> \o JoinLines(Tail(ls))

\* unicode.ToUpper on the letters a-z; every other character of the model
\* has no upper-case form and is kept
LowerSeq == <<"a","b","c","d","e","f","g","h","i","j","k","l","m",
              "n","o","p","q","r","s","t","u","v","w","x","y","z">>

UpperSeq == <<"A","B","C","D","E","F","G","H","I","J","K","L","M",
              "N","O","P","Q","R","S","T","U","V","W","X","Y","Z">>

ToUpperChar(c) ==
    IF c \in LowerChars
    THEN UpperSeq[CHOOSE k \in 1..26 : LowerSeq[k] = c]
    ELSE c

\* strings.ToUpper
ToUpper(s) == [k \in 1..Len(s) |-> ToUpperChar(s[k])]

-----------------------------------------------------------------------------
(* Pattern classifier *)

\* regexp `^<word>\s+\d+` for the chapter words of headingPatterns
MatchWordNumber(s, word) ==
    /\ HasPrefix(s, word)
    /\ LET sp == Span(s, Len(word) + 1, ReSpace)
       IN  sp >= 1 /\ Span(s, Len(word) + sp + 1, DigitChars) >= 1

\* regexp `^\d+\.\s+[A-Z]`
MatchNumberedTitle(s) ==
    LET d  == Span(s, 1, DigitChars)
        sp == Span(s, d + 2, ReSpace)
    IN  /\ d >= 1
        /\ d + 1 <= Len(s) /\ s[d + 1] = "."
        /\ sp >= 1
        /\ d + sp + 2 <= Len(s) /\ s[d + sp + 2] \in UpperChars

\* regexp `^[A-Z][A-Z\s]{3,}$`
MatchAllCaps(s) ==
    /\ Len(s) >= 4
    /\ s[1] \in UpperChars
    /\ Span(s, 2, UpperChars \cup ReSpace) = Len(s) - 1

\* regexp `^[A-Z][a-z\s]{3,}$`
MatchTitleCase(s) ==
    /\ Len(s) >= 4
    /\ s[1] \in UpperChars
    /\ Span(s, 2, LowerChars \cup ReSpace) = Len(s) - 1

\* regexp `^\d+\.`
MatchNumberedList(s) ==
    LET d == Span(s, 1, DigitChars)
    IN  d >= 1 /\ d + 1 <= Len(s) /\ s[d + 1] = "."

ChapterWords ==
    { <<"B","a","b">>, <<"P","a","s","a","l">>, <<"C","h","a","p","t","e","r">>,
      <<"S","e","c","t","i","o","n">>, <<"A","r","t","i","k","e","l">>,
      <<"B","A","B">>, <<"P","A","S","A","L">> }

\* the loop over headingPatterns
MatchHeadingPattern(s) ==
    \/ \E w \in ChapterWords : MatchWordNumber(s, w)
    \/ MatchNumberedTitle(s)
    \/ MatchAllCaps(s)
    \/ MatchTitleCase(s)

BulletGlyphs == {"U+2022", "-", "*"}

\* strings.HasPrefix(trimmed, "•") || "-" || "*"
HasBulletPrefix(s) == Len(s) >= 1 /\ s[1] \in BulletGlyphs

PageSeparator == <<"-", "-", "-", " ", "P", "a", "g", "e">>

NaturalBreakMaxLen == 100

\* the previous-line heuristic.  lineIndex is Go's 0-based index, so
\* allLines[lineIndex-1] of the code is allLines[lineIndex] here.
LooksLikeHeadingAfterBlank(trimmed, lineIndex, allLines) ==
    /\ lineIndex > 0
    /\ TrimSpace(allLines[lineIndex]) = <<>>
    /\ StrLen(trimmed) < NaturalBreakMaxLen
    /\ \/ ToUpper(trimmed) = trimmed
       \/ HasSuffix(trimmed, <<":">>)
       \/ HasSuffix(trimmed, <<".">>)

\* TextProcessor.IsNaturalBreak
IsNaturalBreak(line, lineIndex, allLines) ==
    LET trimmed == TrimSpace(line)
    IN  IF trimmed = <<>> THEN TRUE
        ELSE IF MatchHeadingPattern(trimmed) THEN TRUE
        ELSE IF HasBulletPrefix(trimmed) THEN TRUE
        ELSE IF MatchNumberedList(trimmed) THEN TRUE
        ELSE IF Contains(trimmed, PageSeparator) THEN TRUE
        ELSE LooksLikeHeadingAfterBlank(trimmed, lineIndex, allLines)

-----------------------------------------------------------------------------
(* Natural-break segmenter *)

\* if chunk != "" { chunks = append(chunks, chunk) }
AppendNonEmpty(out, chunk) == IF chunk # <<>> THEN Append(out, chunk) ELSE out

\* chunk := strings.TrimSpace(currentChunk.String()); if chunk != "" { append }
\* (FlushUntrimmed: the faulty variant that appends the builder as it is)
FlushUntrimmed(cur, out) == Append(out, cur)
Flush(cur, out) == AppendNonEmpty(out, TrimSpace(cur))

\* the natural-break check made before the line is written; b is the state
\* of the loop: the builder (cur) and the chunks appended so far (out)
\* (NaturalBreakPhaseAnySize: the faulty variant that breaks at a natural
\* break whatever the builder holds)
NaturalBreakPhaseAnySize(b, i, ls, size) ==
    IF IsNaturalBreak(TrimSpace(ls[i + 1]), i, ls)
    THEN [cur |-> <<>>, out |-> Flush(b.cur, b.out)]
    ELSE b
NaturalBreakPhase(b, i, ls, size) ==
    IF IsNaturalBreak(TrimSpace(ls[i + 1]), i, ls) /\ StrLen(b.cur) > size
    THEN [cur |-> <<>>, out |-> Flush(b.cur, b.out)]
    ELSE b

\* the forced break, once the line is in the builder
\* (faulty variants: ForcedBreakNone never breaks, ForcedBreakNoReset
\* appends the chunk and leaves the builder as it is)
ForcedBreakNone(buf, out, size) == [cur |-> buf, out |-> out]
ForcedBreakNoReset(buf, out, size) ==
    IF StrLen(buf) > size
    THEN [cur |-> buf, out |-> Flush(buf, out)]
    ELSE [cur |-> buf, out |-> out]
ForcedBreak(buf, out, size) ==
    IF StrLen(buf) > size
    THEN [cur |-> <<>>, out |-> Flush(buf, out)]
    ELSE [cur |-> buf, out |-> out]

\* currentChunk.WriteString(line + "\n") and the forced break
AppendPhase(b, line, size) == ForcedBreak(b.cur \o line \o <<"\n">>, b.out, size)

\* "Add remaining content"
RemainingPhase(b) == IF StrLen(b.cur) > 0 THEN Flush(b.cur, b.out) ELSE b.out

\* the loop of SplitTextIntoLocalChunks from iteration i on
RECURSIVE LocalLoop(_, _, _, _)
LocalLoop(b, i, ls, size) ==
    IF i >= Len(ls) THEN RemainingPhase(b)
    ELSE LocalLoop(AppendPhase(NaturalBreakPhase(b, i, ls, size), ls[i + 1], size),
                   i + 1, ls, size)

\* TextProcessor.SplitTextIntoLocalChunks, as a function of text and threshold
SplitTextIntoLocalChunks(t, size) ==
    LocalLoop([cur |-> <<>>, out |-> <<>>], 0, SplitLines(t), size)

-----------------------------------------------------------------------------
(* Size-based splitter *)

\* the loop of SplitTextIntoChunks from line k on (1-based), then the remainder
RECURSIVE BlockLoop(_, _, _, _, _)
BlockLoop(cur, out, k, ls, size) ==
    IF k > Len(ls) THEN (IF StrLen(cur) > 0 THEN Append(out, cur) ELSE out)
    ELSE LET buf == cur \o ls[k] \o <<"\n">>
         IN  IF StrLen(buf) > size
             THEN BlockLoop(<<>>, Append(out, buf), k + 1, ls, size)
             ELSE BlockLoop(buf, out, k + 1, ls, size)

\* TextProcessor.SplitTextIntoChunks, as a function of text and maxChunkSize
SplitTextIntoChunks(t, size) == BlockLoop(<<>>, <<>>, 1, SplitLines(t), size)

\* one iteration of the loop of SplitTextIntoChunks, for the builder with
\* the line written to it: "If chunk is getting too large, split it"
\* (BlockBreakAtSize: the faulty variant that splits at maxChunkSize already)
BlockBreakAtSize(buf, out, size) ==
    IF StrLen(buf) >= size
    THEN [cur |-> <<>>, out |-> Append(out, buf)]
    ELSE [cur |-> buf, out |-> out]
BlockBreak(buf, out, size) ==
    IF StrLen(buf) > size
    THEN [cur |-> <<>>, out |-> Append(out, buf)]
    ELSE [cur |-> buf, out |-> out]

\* currentChunk.WriteString(line + "\n") and the split
BlockAppendPhase(b, line, size) == BlockBreak(b.cur \o line \o <<"\n">>, b.out, size)

\* "Add remaining content" of SplitTextIntoChunks
BlockRemainingPhase(b) == IF StrLen(b.cur) > 0 THEN Append(b.out, b.cur) ELSE b.out

-----------------------------------------------------------------------------
(* Page-range resolver *)

PageMarkerOpen == <<"-", "-", "-", " ", "P", "a", "g", "e", " ">>
PageMarkerClose == <<" ", "-", "-", "-">>
PageWord == <<"P", "a", "g", "e", " ">>
EnDash == "U+2013"

\* length of the match of `--- Page (\d+) ---` that starts at p, 0 if none
PageMarkerLen(s, p) ==
    LET d == Span(s, p + Len(PageMarkerOpen), DigitChars)
    IN  IF /\ OccursAt(s, PageMarkerOpen, p)
           /\ d >= 1
           /\ OccursAt(s, PageMarkerClose, p + Len(PageMarkerOpen) + d)
        THEN Len(PageMarkerOpen) + d + Len(PageMarkerClose)
        ELSE 0

\* the digits captured by the match that starts at p
PageMarkerDigits(s, p) ==
    SubSeq(s, p + Len(PageMarkerOpen),
              p + Len(PageMarkerOpen) + Span(s, p + Len(PageMarkerOpen), DigitChars) - 1)

\* pagePattern.FindAllStringSubmatch(chunk, -1): the captured digits of the
\* successive non-overlapping matches from position p on
RECURSIVE FindPageMarkers(_, _)
PageMarkerAt(s, p, n) ==
    IF n > 0 THEN <<PageMarkerDigits(s, p)>> \o FindPageMarkers(s, p + n)
    ELSE FindPageMarkers(s, p + 1)
FindPageMarkers(s, p) ==
    IF p > Len(s) THEN <<>> ELSE PageMarkerAt(s, p, PageMarkerLen(s, p))

\* the range ExtractPageRange builds from the captured digits of the matches
PageRangeOf(matches) ==
    IF Len(matches) = 0 THEN <<>>
    ELSE IF Len(matches) = 1 THEN PageWord \o matches[1]
    ELSE IF matches[1] = matches[Len(matches)] THEN PageWord \o matches[1]
    ELSE PageWord \o matches[1] \o <<EnDash>> \o matches[Len(matches)]

\* TextProcessor.ExtractPageRange
ExtractPageRange(chunk) == PageRangeOf(FindPageMarkers(chunk, 1))

-----------------------------------------------------------------------------
(* Metadata extractor *)

DocCodePrefixes ==
    { <<"S","O","P">>, <<"K","C","N">>, <<"A","G","R">>, <<"K","E","P">>,
      <<"P","E","R">>, <<"U","U">>, <<"P","P">>, <<"P","M","K">> }

\* length of the match of docCodePattern that starts at p, 0 if none
DocCodeLen(s, p) ==
    IF \E w \in DocCodePrefixes : OccursAt(s, w, p)
    THEN LET w    == CHOOSE x \in DocCodePrefixes : OccursAt(s, x, p)
             q    == p + Len(w)
             body == Span(s, q + 1, UpperChars \cup DigitChars \cup {"/"})
         IN  IF q <= Len(s) /\ s[q] \in {"/", "-"} /\ body >= 1
             THEN Len(w) + 1 + body
             ELSE 0
    ELSE 0

\* regexp matching from position p, 0 standing for "no match": the position
\* after exactly n characters of cls, after one character of cls, and after
\* a greedy run of one or more characters of cls
AfterExactly(s, p, cls, n) == IF p > 0 /\ Span(s, p, cls) >= n THEN p + n ELSE 0
AfterOne(s, p, cls) == IF p > 0 /\ p <= Len(s) /\ s[p] \in cls THEN p + 1 ELSE 0
AfterRun(s, p, cls) == IF p > 0 /\ Span(s, p, cls) >= 1 THEN p + Span(s, p, cls) ELSE 0

Dashes == {"-", EnDash}

\* `\s+[-U+2013]\s+` from p
AfterDash(s, p) == AfterRun(s, AfterOne(s, AfterRun(s, p, ReSpace), Dashes), ReSpace)

\* the position after the match of datePattern that starts at p with n
\* leading digits, 0 if none
DateEnd(s, p, n) ==
    AfterExactly(s,
        AfterDash(s, AfterRun(s, AfterDash(s, AfterExactly(s, p, DigitChars, n)),
                              UpperChars \cup LowerChars)),
        DigitChars, 4)

\* length of a match that starts at p and ends before end
MatchLen(p, end) == IF end > 0 THEN end - p ELSE 0

\* length of the match of datePattern that starts at p with n leading digits
DateLenWith(s, p, n) == MatchLen(p, DateEnd(s, p, n))

\* the first alternative that matches
FirstMatch(a, b) == IF a > 0 THEN a ELSE b

\* \d{1,2} is greedy: two digits are tried before one
DateLen(s, p) == FirstMatch(DateLenWith(s, p, 2), DateLenWith(s, p, 1))

TitleMaxRepeat == 50
TitleMinRepeat == 3

\* length of the match of titlePattern that starts at p, 0 if none: ^ is a
\* line start, the repetition is greedy and backs off until $ holds
TitleLen(s, p) ==
    LET run  == Span(s, p + 1, UpperChars \cup LowerChars \cup ReSpace)
        most == IF run > TitleMaxRepeat THEN TitleMaxRepeat ELSE run
        ends == {k \in TitleMinRepeat..most :
                    p + 1 + k > Len(s) \/ s[p + 1 + k] = "\n"}
    IN  IF /\ p <= Len(s)
           /\ (p = 1 \/ s[p - 1] = "\n")
           /\ s[p] \in UpperChars
           /\ ends # {}
        THEN 1 + (CHOOSE k \in ends : \A j \in ends : j <= k)
        ELSE 0

\* FindAllString for the three patterns: successive non-overlapping matches,
\* n being the length of the match at p
RECURSIVE FindDocCodes(_, _)
DocCodeAt(s, p, n) ==
    IF n > 0 THEN <<SubSeq(s, p, p + n - 1)>> \o FindDocCodes(s, p + n)
    ELSE FindDocCodes(s, p + 1)
FindDocCodes(s, p) ==
    IF p > Len(s) THEN <<>> ELSE DocCodeAt(s, p, DocCodeLen(s, p))

RECURSIVE FindDates(_, _)
DateAt(s, p, n) ==
    IF n > 0 THEN <<SubSeq(s, p, p + n - 1)>> \o FindDates(s, p + n)
    ELSE FindDates(s, p + 1)
FindDates(s, p) ==
    IF p > Len(s) THEN <<>> ELSE DateAt(s, p, DateLen(s, p))

RECURSIVE FindTitles(_, _)
TitleAt(s, p, n) ==
    IF n > 0 THEN <<SubSeq(s, p, p + n - 1)>> \o FindTitles(s, p + n)
    ELSE FindTitles(s, p + 1)
FindTitles(s, p) ==
    IF p > Len(s) THEN <<>> ELSE TitleAt(s, p, TitleLen(s, p))

\* strings.Join(elems, ", ")
RECURSIVE JoinComma(_)
JoinComma(elems) ==
    IF elems = <<>> THEN <<>>
    ELSE IF Len(elems) = 1 THEN elems[1]
    ELSE elems[1] \o <<",", " ">> \o JoinComma(Tail(elems))

TitleMinLen == 5
TitleMaxLen == 100

\* the filter of title candidates ("Filter out common non-titles")
RECURSIVE FilterTitles(_)
FilterTitles(matches) ==
    IF matches = <<>> THEN <<>>
    ELSE LET trimmed == TrimSpace(Head(matches))
             keep    == /\ ~Contains(trimmed, <<"P","a","g","e">>)
                        /\ ~Contains(trimmed, <<"-","-","-">>)
                        /\ StrLen(trimmed) > TitleMinLen
                        /\ StrLen(trimmed) < TitleMaxLen
         IN  (IF keep THEN <<trimmed>> ELSE <<>>) \o FilterTitles(Tail(matches))

DocCodeLabel == <<"-", " ", "*", "*", "D", "o", "c", "u", "m", "e", "n", "t", " ", "C", "o", "d", "e", "*", "*", ":", " ">>
DateLabel == <<"-", " ", "*", "*", "D", "a", "t", "e", "*", "*", ":", " ">>
TitleLabel == <<"-", " ", "*", "*", "D", "o", "c", "u", "m", "e", "n", "t", " ", "T", "i", "t", "l", "e", "*", "*", ":", " ">>

\* if len(matches) > 0 { metadata.WriteString(label + strings.Join(matches, ", ") + "\n") }
\* (MetadataEntryFirstOnly: the faulty variant that lists the first match only)
MetadataEntryFirstOnly(label, matches) ==
    IF matches # <<>> THEN label \o matches[1] \o <<"\n">> ELSE <<>>
MetadataEntry(label, matches) ==
    IF matches # <<>> THEN label \o JoinComma(matches) \o <<"\n">> ELSE <<>>

\* if len(titles) > 0 { ... strings.Join(titles[:1], ", ") ... }
TitleEntry(titles) ==
    IF titles # <<>> THEN TitleLabel \o titles[1] \o <<"\n">> ELSE <<>>

\* TextProcessor.ExtractMetadata
ExtractMetadata(chunk) ==
    MetadataEntry(DocCodeLabel, FindDocCodes(chunk, 1))
    \o MetadataEntry(DateLabel, FindDates(chunk, 1))
    \o TitleEntry(FilterTitles(FindTitles(chunk, 1)))

-----------------------------------------------------------------------------
(* Chunk formatter *)

IsHeadingMaxLen == 100

\* TextProcessor.IsHeading
IsHeading(line) ==
    LET trimmed == TrimSpace(line)
    IN  IF MatchHeadingPattern(trimmed) THEN TRUE
        ELSE /\ StrLen(trimmed) < IsHeadingMaxLen
             /\ (HasSuffix(trimmed, <<":">>) \/ HasSuffix(trimmed, <<".">>))

\* a run-time panic of the Go program (index out of range), which unwinds
\* every caller up to the caller of the library; no string of the model
\* holds this element
Panic == <<"panic: runtime error: index out of range">>

\* the positions where `Page (\d+)` matches in s
PageNumberStarts(s) ==
    {k \in 1..Len(s) : OccursAt(s, PageWord, k) /\ Span(s, k + Len(PageWord), DigitChars) >= 1}

\* regexp.MustCompile(`Page (\d+)`).FindStringSubmatch(trimmed): the slice of
\* the leftmost match and its group, the nil slice (here <<>>) if none
FindPageNumber(s) ==
    IF PageNumberStarts(s) = {} THEN <<>>
    ELSE LET k == CHOOSE x \in PageNumberStarts(s) : \A y \in PageNumberStarts(s) : x <= y
             d == Span(s, k + Len(PageWord), DigitChars)
         IN  << SubSeq(s, k, k + Len(PageWord) + d - 1),
                SubSeq(s, k + Len(PageWord), k + Len(PageWord) + d - 1) >>

\* trimmed[1:], a slice of bytes: of the three bytes of a leading bullet
\* U+2022 (E2 80 A2) the last two stay, neither of them a character
SliceFromByte1(s) ==
    IF s[1] = "U+2022" THEN <<"0x80", "0xA2">> \o Tail(s)
    ELSE IF s[1] = "U+2013" THEN <<"0x80", "0x93">> \o Tail(s)
    ELSE IF s[1] = "U+0085" THEN <<"0x85">> \o Tail(s)
    ELSE IF s[1] = "U+00A0" THEN <<"0xA0">> \o Tail(s)
    ELSE Tail(s)

SubHeadingOpen == <<"\n", "#", "#", "#", " ">>
SubHeadingClose == <<"\n", "\n">>

\* what one iteration of the loop of CleanAndStructureContent writes for line
\* i (0-based) of n lines, or Panic
CleanLine(line, i, n) ==
    LET trimmed == TrimSpace(line)
    IN  IF trimmed = <<>> /\ (i = 0 \/ i = n - 1) THEN <<>>
        ELSE IF Contains(trimmed, PageSeparator)
        THEN (IF Len(FindPageNumber(trimmed)) < 2 THEN Panic
              ELSE SubHeadingOpen \o PageWord \o FindPageNumber(trimmed)[2] \o SubHeadingClose)
        ELSE IF IsHeading(trimmed)
        THEN SubHeadingOpen \o trimmed \o SubHeadingClose
        ELSE IF HasBulletPrefix(trimmed)
        THEN <<"-", " ">> \o TrimSpace(SliceFromByte1(trimmed)) \o <<"\n">>
        ELSE IF MatchNumberedList(trimmed)
        THEN trimmed \o <<"\n">>
        ELSE IF trimmed # <<>> THEN trimmed \o <<"\n">>
        ELSE <<"\n">>

\* the loop of CleanAndStructureContent from line i on (0-based); w is what
\* the iteration for line i writes
RECURSIVE CleanLoop(_, _, _)
CleanWrite(cleaned, w, i, ls) ==
    IF w = Panic THEN Panic ELSE CleanLoop(cleaned \o w, i + 1, ls)
CleanLoop(cleaned, i, ls) ==
    IF i >= Len(ls) THEN cleaned
    ELSE CleanWrite(cleaned, CleanLine(ls[i + 1], i, Len(ls)), i, ls)

\* return strings.TrimSpace(cleaned.String())
TrimCleaned(cleaned) == IF cleaned = Panic THEN Panic ELSE TrimSpace(cleaned)

\* TextProcessor.CleanAndStructureContent
CleanAndStructureContent(chunk) == TrimCleaned(CleanLoop(<<>>, 0, SplitLines(chunk)))

DigitSeq == <<"0","1","2","3","4","5","6","7","8","9">>

\* fmt's %d of a non-negative int
RECURSIVE FormatInt(_)
FormatInt(n) ==
    IF n < 10 THEN <<DigitSeq[n + 1]>>
    ELSE FormatInt(n \div 10) \o <<DigitSeq[(n % 10) + 1]>>

ChunkHeader == <<"#", " ", "D", "o", "c", "u", "m", "e", "n", "t", " ", "C", "h", "u", "n", "k", "\n", "\n">>
MetadataHeader == <<"#", "#", " ", "M", "e", "t", "a", "d", "a", "t", "a", "\n">>
ChunkNumberLabel == <<"-", " ", "*", "*", "C", "h", "u", "n", "k", " ", "N", "u", "m", "b", "e", "r", "*", "*", ":", " ">>
OfWord == <<" ", "o", "f", " ">>
PageRangeLabel == <<"-", " ", "*", "*", "P", "a", "g", "e", " ", "R", "a", "n", "g", "e", "*", "*", ":", " ">>
ContentHeader == <<"#", "#", " ", "C", "o", "n", "t", "e", "n", "t", "\n", "\n">>

\* the text FormatLocalChunk builds from its parts
\* (FormatPartsNoPageRange: the faulty variant that leaves the page range out;
\* FormatPartsMetadataFirst: the faulty variant that writes the metadata lines
\* before the page range)
FormatPartsMetadataFirst(metadata, pageRange, content, chunkNum, totalChunks) ==
    IF content = Panic THEN Panic
    ELSE ChunkHeader
         \o MetadataHeader
         \o ChunkNumberLabel \o FormatInt(chunkNum) \o OfWord \o FormatInt(totalChunks) \o <<"\n">>
         \o metadata
         \o (IF pageRange # <<>> THEN PageRangeLabel \o pageRange \o <<"\n">> ELSE <<>>)
         \o <<"\n">>
         \o ContentHeader
         \o content
FormatPartsNoPageRange(metadata, pageRange, content, chunkNum, totalChunks) ==
    IF content = Panic THEN Panic
    ELSE ChunkHeader
         \o MetadataHeader
         \o ChunkNumberLabel \o FormatInt(chunkNum) \o OfWord \o FormatInt(totalChunks) \o <<"\n">>
         \o metadata
         \o <<"\n">>
         \o ContentHeader
         \o content
FormatParts(metadata, pageRange, content, chunkNum, totalChunks) ==
    IF content = Panic THEN Panic
    ELSE ChunkHeader
         \o MetadataHeader
         \o ChunkNumberLabel \o FormatInt(chunkNum) \o OfWord \o FormatInt(totalChunks) \o <<"\n">>
         \o (IF pageRange # <<>> THEN PageRangeLabel \o pageRange \o <<"\n">> ELSE <<>>)
         \o metadata
         \o <<"\n">>
         \o ContentHeader
         \o content

\* TextProcessor.FormatLocalChunk
FormatLocalChunk(chunk, chunkNum, totalChunks) ==
    FormatParts(ExtractMetadata(chunk), ExtractPageRange(chunk),
                CleanAndStructureContent(chunk), chunkNum, totalChunks)

\* TextProcessor.CreateLocalIntelligentChunk
FormatFirstChunk(t, cs) ==
    IF Len(cs) = 0 THEN t ELSE FormatLocalChunk(cs[1], 1, 1)
CreateLocalIntelligentChunk(t, size) ==
    FormatFirstChunk(t, SplitTextIntoLocalChunks(t, size))

-----------------------------------------------------------------------------
(* Inputs *)

MaxLines == 3
MaxSize == 4

RECURSIVE SeqsUpTo(_, _)
SeqsUpTo(S, n) ==
    IF n = 0 THEN {<<>>}
    ELSE LET shorter == SeqsUpTo(S, n - 1)
         IN  shorter \cup {Append(s, x) : s \in {q \in shorter : Len(q) = n - 1}, x \in S}

\* lines the segmenter is run on: blank, padded, plain, bulleted
SplitLinePool ==
    { <<>>, <<" ">>, <<"x">>, <<" ", "x", "y">>, <<"x", "\t">>, <<"U+2022", "x">> }

SplitTexts == {JoinLines(ls) : ls \in SeqsUpTo(SplitLinePool, MaxLines) \ {<<>>}}

Sizes == 1..MaxSize

-----------------------------------------------------------------------------
(* SplitTextIntoLocalChunks, one loop phase per step *)

\* no Chunker call is running
NoUsage == [PromptTokens |-> 0, CompletionTokens |-> 0, TotalTokens |-> 0]
NoReturn == [state |-> "running", chunks |-> <<>>, err |-> "", usage |-> NoUsage, result |-> FALSE]
ChunkerIdle ==
    /\ aiProvider = "nil"
    /\ call = [api |-> "none"]
    /\ filename = <<>>
    /\ textChunks = <<>>
    /\ bi = 0
    /\ records = <<>>
    /\ totalTokenUsage = NoUsage
    /\ aiCalls = <<>>
    /\ aiResults = <<>>
    /\ callLog = <<>>
    /\ writes = <<>>
    /\ segmented = <<>>
    /\ ret = NoReturn

\* no PDF extraction is running
OcrIdle ==
    /\ tempFiles = <<>>
    /\ inodes = <<>>
    /\ ocr = <<>>

SplitInit ==
    /\ text \in SplitTexts
    /\ localChunkSize \in Sizes
    /\ maxChunkSize = localChunkSize
    /\ lines = SplitLines(text)
    /\ li = 0
    /\ currentChunk = <<>>
    /\ chunks = <<>>
    /\ written = <<>>
    /\ ChunkerIdle
    /\ result = <<>>
    /\ OcrIdle
    /\ pc = "check"

\* the builder and the chunk list of the running loop
LoopState == [cur |-> currentChunk, out |-> chunks]

SplitCheckBreak ==
    /\ pc = "check"
    /\ li < Len(lines)
    /\ LET a == NaturalBreakPhase(LoopState, li, lines, localChunkSize)
       IN  /\ currentChunk' = a.cur
           /\ chunks' = a.out
    /\ pc' = "append"
    /\ UNCHANGED <<cfgVars, ocrVars, text, lines, li, written, chunkerVars, result>>

SplitAppendLine ==
    /\ pc = "append"
    /\ LET b == AppendPhase(LoopState, lines[li + 1], localChunkSize)
       IN  /\ currentChunk' = b.cur
           /\ chunks' = b.out
    /\ written' = lines[li + 1]
    /\ li' = li + 1
    /\ pc' = "check"
    /\ UNCHANGED <<cfgVars, ocrVars, text, lines, chunkerVars, result>>

SplitRemaining ==
    /\ pc = "check"
    /\ li >= Len(lines)
    /\ chunks' = RemainingPhase(LoopState)
    /\ pc' = "done"
    /\ UNCHANGED <<cfgVars, ocrVars, text, lines, li, currentChunk, written, chunkerVars, result>>

SplitNext == SplitCheckBreak \/ SplitAppendLine \/ SplitRemaining

SpecSplit == SplitInit /\ [][SplitNext]_vars

-----------------------------------------------------------------------------
(* SplitTextIntoChunks, one loop iteration per step *)

BlocksInit ==
    /\ text \in SplitTexts
    /\ maxChunkSize \in Sizes
    /\ localChunkSize = maxChunkSize
    /\ lines = SplitLines(text)
    /\ li = 0
    /\ currentChunk = <<>>
    /\ chunks = <<>>
    /\ written = <<>>
    /\ ChunkerIdle
    /\ result = <<>>
    /\ OcrIdle
    /\ pc = "append"

BlocksAppendLine ==
    /\ pc = "append"
    /\ li < Len(lines)
    /\ LET b == BlockAppendPhase(LoopState, lines[li + 1], maxChunkSize)
       IN  /\ currentChunk' = b.cur
           /\ chunks' = b.out
    /\ written' = lines[li + 1]
    /\ li' = li + 1
    /\ UNCHANGED <<cfgVars, ocrVars, text, lines, chunkerVars, result, pc>>

BlocksRemaining ==
    /\ pc = "append"
    /\ li >= Len(lines)
    /\ chunks' = BlockRemainingPhase(LoopState)
    /\ pc' = "done"
    /\ UNCHANGED <<cfgVars, ocrVars, text, lines, li, currentChunk, written, chunkerVars, result>>

BlocksNext == BlocksAppendLine \/ BlocksRemaining

SpecBlocks == BlocksInit /\ [][BlocksNext]_vars

-----------------------------------------------------------------------------
(* PDF text extraction, as far as the chunker sees it *)

PageSeparatorOpen == <<"\n", "\n", "-", "-", "-", " ", "P", "a", "g", "e", " ">>
PageSeparatorClose == <<" ", "-", "-", "-", "\n", "\n">>

\* the loop of extractTextFromDocument from page pageIndex on (0-based):
\* pages[k] is the text processPage got for page k, directly or by OCR
RECURSIVE ExtractPages(_, _)
ExtractPages(pages, pageIndex) ==
    IF pageIndex >= Len(pages) THEN <<>>
    ELSE PageSeparatorOpen \o FormatInt(pageIndex + 1) \o PageSeparatorClose
         \o pages[pageIndex + 1] \o ExtractPages(pages, pageIndex + 1)

\* ExtractTextFromPDFBytes as processPDFInput uses it: "" when the document
\* cannot be opened
ExtractTextFromPDF(doc) == IF doc.opens THEN ExtractPages(doc.pages, 0) ELSE <<>>

-----------------------------------------------------------------------------
(* Chunker *)

InputTxtName == <<"i","n","p","u","t",".","t","x","t">>
InputPdfName == <<"i","n","p","u","t",".","p","d","f">>

SupportedInputTypes == {"InputPDF", "InputTXT", "InputString"}
OutputTypes == {"OutputJSON", "OutputFile", "OutputBoth", "OutputType(3)"}

\* processPDFInput, processTXTInput, processStringInput: the text and the
\* file name of an input that is binary data or, for text, the content itself
ProcessInput(c) ==
    IF c.inputType = "InputPDF"
    THEN [text |-> ExtractTextFromPDF(c.input), filename |-> InputPdfName]
    ELSE [text |-> c.input, filename |-> InputTxtName]

\* what the AI provider answers when it succeeds: a text the model does not
\* look into
AIResponse == <<"<ai response>">>

\* the token usage one successful ChunkTextWithUsage call may report
UsageReports ==
    { [PromptTokens |-> 2, CompletionTokens |-> 1, TotalTokens |-> 3],
      [PromptTokens |-> 3, CompletionTokens |-> 2, TotalTokens |-> 5] }

\* the answer of the AI provider to one call: an error, or a text (AIResponse)
\* with the token usage reported for it; ChunkText reports no usage
AIFailure == [err |-> TRUE, usage |-> NoUsage]
AISuccess(usage) == [err |-> FALSE, usage |-> usage]

ChunkData(name, index, pageRange, txt) ==
    [Filename |-> name, ChunkIndex |-> index, PageRange |-> pageRange, Text |-> txt]

\* the loop of createLocalChunks from element i on (0-based): the records,
\* and whether formatting a chunk panicked; formatted is the text
\* FormatLocalChunk gave for element i
\* (LocalChunkAppendZeroBased: the faulty variant with ChunkIndex: i)
RECURSIVE LocalChunkLoop(_, _, _, _)
LocalChunkAppendZeroBased(cs, i, name, out, formatted) ==
    IF formatted = Panic THEN [panic |-> TRUE, records |-> <<>>]
    ELSE LocalChunkLoop(cs, i + 1, name,
             Append(out, ChunkData(name, i, ExtractPageRange(cs[i + 1]), formatted)))
LocalChunkAppend(cs, i, name, out, formatted) ==
    IF formatted = Panic THEN [panic |-> TRUE, records |-> <<>>]
    ELSE LocalChunkLoop(cs, i + 1, name,
             Append(out, ChunkData(name, i + 1, ExtractPageRange(cs[i + 1]), formatted)))
LocalChunkLoop(cs, i, name, out) ==
    IF i >= Len(cs) THEN [panic |-> FALSE, records |-> out]
    ELSE IF TrimSpace(cs[i + 1]) = <<>> THEN LocalChunkLoop(cs, i + 1, name, out)
    ELSE LocalChunkAppend(cs, i, name, out, FormatLocalChunk(cs[i + 1], i + 1, Len(cs)))

\* Chunker.createLocalChunks
createLocalChunks(t, name, size) ==
    LocalChunkLoop(SplitTextIntoLocalChunks(t, size), 0, name, <<>>)

Returned(cs, e, u, r) == [state |-> "returned", chunks |-> cs, err |-> e, usage |-> u, result |-> r]
Panicked == [state |-> "panicked", chunks |-> <<>>, err |-> "", usage |-> NoUsage, result |-> FALSE]

\* createChunks on the local path: made is what createLocalChunks gave
LocalPath(made) ==
    IF made.panic
    THEN /\ ret' = Panicked
         /\ pc' = "done"
         /\ UNCHANGED <<textChunks, bi, records>>
    ELSE /\ records' = made.records
         /\ pc' = "output"
         /\ UNCHANGED <<textChunks, bi, ret>>

\* the texts the AI path hands to SplitTextIntoChunks before its loop:
\* createAIChunksWithUsage splits the text, and createAIChunks, to which it
\* turns for a provider without usage tracking, splits it again
AISplits(t) ==
    IF call.api = "ChunkInputWithUsage" /\ aiProvider = "plain" THEN <<t, t>> ELSE <<t>>

\* the empty-text check and createChunks up to the start of the AI loop,
\* for the text and file name the input gave
\* (CheckAndChunkNoEmptyCheck: the faulty variant without the empty-text check)
CheckAndChunkNoEmptyCheck(in, aiLoop) ==
    /\ text' = in.text
    /\ filename' = in.filename
    /\ IF aiProvider # "nil"
       THEN /\ segmented' = segmented \o AISplits(in.text)
            /\ textChunks' = SplitTextIntoChunks(in.text, maxChunkSize)
            /\ bi' = 0
            /\ records' = <<>>
            /\ pc' = aiLoop
            /\ UNCHANGED ret
       ELSE /\ segmented' = Append(segmented, in.text)
            /\ LocalPath(createLocalChunks(in.text, in.filename, localChunkSize))
CheckAndChunk(in, aiLoop) ==
    /\ text' = in.text
    /\ filename' = in.filename
    /\ IF TrimSpace(in.text) = <<>>
       THEN /\ ret' = Returned(<<>>, "input text is empty", NoUsage, FALSE)
            /\ pc' = "done"
            /\ UNCHANGED <<textChunks, bi, records, segmented>>
       ELSE IF aiProvider # "nil"
       THEN /\ segmented' = segmented \o AISplits(in.text)
            /\ textChunks' = SplitTextIntoChunks(in.text, maxChunkSize)
            /\ bi' = 0
            /\ records' = <<>>
            /\ pc' = aiLoop
            /\ UNCHANGED ret
       ELSE /\ segmented' = Append(segmented, in.text)
            /\ LocalPath(createLocalChunks(in.text, in.filename, localChunkSize))

\* the part ChunkInput and ChunkInputWithUsage share: input processing, the
\* empty-text check, and createChunks up to the start of the AI loop.
\* aiLoop is the loop the AI path runs.
EnterCall(aiLoop) ==
    IF call.inputType \notin SupportedInputTypes
    THEN /\ ret' = Returned(<<>>, "unsupported input type", NoUsage, FALSE)
         /\ pc' = "done"
         /\ UNCHANGED <<text, filename, textChunks, bi, records, segmented>>
    ELSE CheckAndChunk(ProcessInput(call), aiLoop)

\* Chunker.ChunkInput up to createChunks
ChunkInput ==
    /\ pc = "call"
    /\ call.api = "ChunkInput"
    /\ EnterCall("createAIChunks")
    /\ UNCHANGED <<cfgVars, ocrVars, segVars, aiProvider, call, callLog, totalTokenUsage, aiCalls, aiResults,
                   writes, result>>

\* Chunker.ChunkInputWithUsage up to createChunksWithUsage; a provider
\* without usage tracking sends createAIChunksWithUsage to createAIChunks
ChunkInputWithUsage ==
    /\ pc = "call"
    /\ call.api = "ChunkInputWithUsage"
    /\ EnterCall(IF aiProvider = "usage" THEN "createAIChunksWithUsage" ELSE "createAIChunks")
    /\ UNCHANGED <<cfgVars, ocrVars, segVars, aiProvider, call, callLog, totalTokenUsage, aiCalls, aiResults,
                   writes, result>>

\* the end of an iteration of the AI loops for a non-blank block: the record
\* for the text intelligentChunk, unless the local fallback panicked
\* (AppendAIChunkFixedIndex: the faulty variant with ChunkIndex: 1)
AppendAIChunkFixedIndex(chunk, intelligentChunk, next) ==
    IF intelligentChunk = Panic
    THEN /\ ret' = Panicked
         /\ pc' = "done"
         /\ UNCHANGED records
    ELSE /\ records' = Append(records,
                ChunkData(filename, 1, ExtractPageRange(chunk), intelligentChunk))
         /\ pc' = next
         /\ UNCHANGED ret
AppendAIChunk(chunk, intelligentChunk, next) ==
    IF intelligentChunk = Panic
    THEN /\ ret' = Panicked
         /\ pc' = "done"
         /\ UNCHANGED records
    ELSE /\ records' = Append(records,
                ChunkData(filename, bi + 1, ExtractPageRange(chunk), intelligentChunk))
         /\ pc' = next
         /\ UNCHANGED ret

\* one iteration of the loop of createAIChunks
createAIChunks ==
    /\ pc = "createAIChunks"
    /\ bi < Len(textChunks)
    /\ LET chunk == textChunks[bi + 1]
           next  == IF bi + 1 >= Len(textChunks) THEN "output" ELSE "createAIChunks"
       IN  IF TrimSpace(chunk) = <<>>
           THEN /\ pc' = next
                /\ UNCHANGED <<records, aiCalls, aiResults, segmented, ret>>
           ELSE /\ aiCalls' = Append(aiCalls, chunk)
                /\ \/ \* err != nil: fallback to local chunking
                      /\ aiResults' = Append(aiResults, AIFailure)
                      /\ segmented' = Append(segmented, chunk)
                      /\ AppendAIChunk(chunk, CreateLocalIntelligentChunk(chunk, localChunkSize), next)
                   \/ /\ aiResults' = Append(aiResults, AISuccess(NoUsage))
                      /\ AppendAIChunk(chunk, AIResponse, next)
                      /\ UNCHANGED segmented
    /\ bi' = bi + 1
    /\ UNCHANGED <<cfgVars, ocrVars, text, segVars, aiProvider, call, callLog, filename, textChunks,
                   totalTokenUsage, writes, result>>

\* totalTokenUsage.X += result.TokenUsage.X for the three fields
\* (AddUsagePromptOnly: the faulty variant that adds the prompt tokens only)
AddUsagePromptOnly(a, b) ==
    [PromptTokens     |-> a.PromptTokens + b.PromptTokens,
     CompletionTokens |-> a.CompletionTokens,
     TotalTokens      |-> a.TotalTokens]
AddUsage(a, b) ==
    [PromptTokens     |-> a.PromptTokens + b.PromptTokens,
     CompletionTokens |-> a.CompletionTokens + b.CompletionTokens,
     TotalTokens      |-> a.TotalTokens + b.TotalTokens]

\* one iteration of the loop of createAIChunksWithUsage
createAIChunksWithUsage ==
    /\ pc = "createAIChunksWithUsage"
    /\ bi < Len(textChunks)
    /\ LET chunk == textChunks[bi + 1]
           next  == IF bi + 1 >= Len(textChunks) THEN "output" ELSE "createAIChunksWithUsage"
       IN  IF TrimSpace(chunk) = <<>>
           THEN /\ pc' = next
                /\ UNCHANGED <<records, aiCalls, aiResults, segmented, ret, totalTokenUsage>>
           ELSE /\ aiCalls' = Append(aiCalls, chunk)
                /\ \/ \* err != nil: fallback to local chunking
                      /\ aiResults' = Append(aiResults, AIFailure)
                      /\ segmented' = Append(segmented, chunk)
                      /\ AppendAIChunk(chunk, CreateLocalIntelligentChunk(chunk, localChunkSize), next)
                      /\ UNCHANGED totalTokenUsage
                   \/ \E usage \in UsageReports :
                          /\ aiResults' = Append(aiResults, AISuccess(usage))
                          /\ totalTokenUsage' = AddUsage(totalTokenUsage, usage)
                          /\ AppendAIChunk(chunk, AIResponse, next)
                          /\ UNCHANGED segmented
    /\ bi' = bi + 1
    /\ UNCHANGED <<cfgVars, ocrVars, text, segVars, aiProvider, call, callLog, filename, textChunks, writes,
                   result>>

\* the files saveChunksToFiles writes for the records from the k-th on, in
\* order: chunk_<index>.txt, then chunk_<index>.json
RECURSIVE FilesOf(_, _)
FilesOf(rs, k) ==
    IF k > Len(rs) THEN <<>>
    ELSE << [dir |-> "chunk", index |-> rs[k].ChunkIndex],
            [dir |-> "json", index |-> rs[k].ChunkIndex] >> \o FilesOf(rs, k + 1)

\* Chunker.saveChunksToFiles when the file system lets `good` writes succeed:
\* -1 when creating a directory fails, 2 * Len(rs) when nothing fails
saveChunksToFiles(rs, good) ==
    IF good < 0 THEN [files |-> <<>>, err |-> "failed to create directory"]
    ELSE IF good < 2 * Len(rs)
    THEN [files |-> SubSeq(FilesOf(rs, 1), 1, good), err |-> "failed to save chunk"]
    ELSE [files |-> FilesOf(rs, 1), err |-> ""]

\* "Handle output based on type" of ChunkInput
ChunkInputOutput ==
    /\ pc = "output"
    /\ call.api = "ChunkInput"
    /\ \E outputType \in OutputTypes, good \in -1..(2 * Len(records)) :
          LET saved == saveChunksToFiles(records, good)
          IN  IF outputType = "OutputJSON"
              THEN /\ good = 2 * Len(records)
                   /\ ret' = Returned(records, "", NoUsage, records # <<>>)
                   /\ UNCHANGED writes
              ELSE IF outputType = "OutputFile"
              THEN /\ ret' = Returned(records, saved.err, NoUsage, records # <<>>)
                   /\ writes' = saved.files
              ELSE IF outputType = "OutputBoth"
              THEN /\ ret' = IF saved.err # ""
                             THEN Returned(<<>>, "failed to save chunks to files", NoUsage, FALSE)
                             ELSE Returned(records, "", NoUsage, records # <<>>)
                   /\ writes' = saved.files
              ELSE /\ good = 2 * Len(records)
                   /\ ret' = Returned(<<>>, "unsupported output type", NoUsage, FALSE)
                   /\ UNCHANGED writes
    /\ pc' = "done"
    /\ UNCHANGED <<cfgVars, ocrVars, text, segVars, aiProvider, call, callLog, filename, textChunks, bi,
                   records, totalTokenUsage, aiCalls, aiResults, segmented, result>>

\* "Handle output based on type" of ChunkInputWithUsage
ChunkInputWithUsageOutput ==
    /\ pc = "output"
    /\ call.api = "ChunkInputWithUsage"
    /\ \E outputType \in OutputTypes, good \in -1..(2 * Len(records)) :
          LET saved == saveChunksToFiles(records, good)
          IN  IF outputType = "OutputJSON"
              THEN /\ good = 2 * Len(records)
                   /\ ret' = Returned(records, "", totalTokenUsage, TRUE)
                   /\ UNCHANGED writes
              ELSE IF outputType \in {"OutputFile", "OutputBoth"}
              THEN /\ ret' = IF saved.err # ""
                             THEN Returned(<<>>, "failed to save chunks to files", NoUsage, FALSE)
                             ELSE Returned(records, "", totalTokenUsage, TRUE)
                   /\ writes' = saved.files
              ELSE /\ good = 2 * Len(records)
                   /\ ret' = Returned(<<>>, "unsupported output type", NoUsage, FALSE)
                   /\ UNCHANGED writes
    /\ pc' = "done"
    /\ UNCHANGED <<cfgVars, ocrVars, text, segVars, aiProvider, call, callLog, filename, textChunks, bi,
                   records, totalTokenUsage, aiCalls, aiResults, segmented, result>>

DocMaxLines == 2
DocMaxSize == 3
MaxPages == 2

\* lines of the documents given to the chunker: two blank, two plain lines, a
\* page marker, and a line that holds "--- Page" with no page number
DocLinePool ==
    { <<>>, <<" ">>, <<"x">>, <<"y">>,
      <<"-", "-", "-", " ", "P", "a", "g", "e", " ", "1", " ", "-", "-", "-">>,
      <<"-", "-", "-", " ", "P", "a", "g", "e">> }

DocTexts == {<<>>} \cup {JoinLines(ls) : ls \in SeqsUpTo(DocLinePool, DocMaxLines) \ {<<>>}}

PdfDocs ==
    {[opens |-> FALSE, pages |-> <<>>]}
    \cup {[opens |-> TRUE, pages |-> ps] : ps \in SeqsUpTo({<<>>, <<"x">>}, MaxPages)}

Calls ==
    {[api |-> a, inputType |-> "InputString", input |-> t] :
        a \in {"ChunkInput", "ChunkInputWithUsage"}, t \in DocTexts}
    \cup {[api |-> a, inputType |-> "InputTXT", input |-> t] :
        a \in {"ChunkInput", "ChunkInputWithUsage"}, t \in {<<>>, <<"x">>}}
    \cup {[api |-> a, inputType |-> "InputPDF", input |-> d] :
        a \in {"ChunkInput", "ChunkInputWithUsage"}, d \in PdfDocs}
    \cup {[api |-> a, inputType |-> "InputType(3)", input |-> <<"x">>] :
        a \in {"ChunkInput", "ChunkInputWithUsage"}}

\* NewChunker, and a call about to be made on it
ChunkerInit ==
    /\ maxChunkSize \in 1..DocMaxSize
    /\ localChunkSize \in 1..DocMaxSize
    /\ aiProvider \in {"nil", "plain", "usage"}
    /\ call \in Calls
    /\ text = <<>>
    /\ lines = <<>> /\ li = 0 /\ currentChunk = <<>> /\ chunks = <<>> /\ written = <<>>
    /\ filename = <<>>
    /\ textChunks = <<>>
    /\ bi = 0
    /\ records = <<>>
    /\ totalTokenUsage = NoUsage
    /\ aiCalls = <<>>
    /\ aiResults = <<>>
    /\ callLog = <<>>
    /\ writes = <<>>
    /\ segmented = <<>>
    /\ ret = NoReturn
    /\ result = <<>>
    /\ OcrIdle
    /\ pc = "call"

ChunkerNext ==
    \/ ChunkInput
    \/ ChunkInputWithUsage
    \/ createAIChunks
    \/ createAIChunksWithUsage
    \/ ChunkInputOutput
    \/ ChunkInputWithUsageOutput

SpecChunker == ChunkerInit /\ [][ChunkerNext]_vars

-----------------------------------------------------------------------------
(* ExtractPageRange called on its own *)

PageRangeMaxParts == 3

\* the pieces the chunks are made of: markers for pages 1, 2, 12 and 01, a
\* line break, plain text, and a "Page 3" that is no marker
PageRangeParts ==
    { <<"-", "-", "-", " ", "P", "a", "g", "e", " ", "1", " ", "-", "-", "-">>,
      <<"-", "-", "-", " ", "P", "a", "g", "e", " ", "2", " ", "-", "-", "-">>,
      <<"-", "-", "-", " ", "P", "a", "g", "e", " ", "1", "2", " ", "-", "-", "-">>,
      <<"-", "-", "-", " ", "P", "a", "g", "e", " ", "0", "1", " ", "-", "-", "-">>,
      <<"\n">>, <<"x">>, <<"P", "a", "g", "e", " ", "3">> }

RECURSIVE Concat(_)
Concat(parts) == IF parts = <<>> THEN <<>> ELSE Head(parts) \o Concat(Tail(parts))

PageRangeChunks == {Concat(ps) : ps \in SeqsUpTo(PageRangeParts, PageRangeMaxParts)}

PageRangeInit ==
    /\ text \in PageRangeChunks
    /\ localChunkSize = 1
    /\ maxChunkSize = 1
    /\ lines = <<>> /\ li = 0 /\ currentChunk = <<>> /\ chunks = <<>> /\ written = <<>>
    /\ ChunkerIdle
    /\ result = <<>>
    /\ OcrIdle
    /\ pc = "call"

ExtractPageRangeCall ==
    /\ pc = "call"
    /\ result' = ExtractPageRange(text)
    /\ pc' = "done"
    /\ UNCHANGED <<cfgVars, ocrVars, text, segVars, chunkerVars>>

PageRangeNext == ExtractPageRangeCall

SpecPageRange == PageRangeInit /\ [][PageRangeNext]_vars

-----------------------------------------------------------------------------
(* IsNaturalBreak called on its own *)

\* n times the character c
Repeat(c, n) == [k \in 1..n |-> c]

\* the lines IsNaturalBreak is asked about: every rule of the function has
\* a line that meets it and one that just misses it; the last five are
\* around 100 bytes long, two of them with multi-byte characters
BreakLines ==
    { <<>>, <<" ">>,
      <<"B","a","b"," ","1">>, <<"B","a","b","1">>,
      <<"P","A","S","A","L"," "," ","2">>,
      <<"1","."," ","T">>, <<"1","."," ","t">>, <<"1","2",".">>, <<"1","2">>,
      <<"A","B","C","D">>, <<"A","B","C">>, <<"A","b","c","d">>, <<"A","b","C"," ","d">>,
      <<"U+2022"," ","x">>, <<"-","x">>, <<"*">>, <<"x","*">>,
      <<"x"," ","-","-","-"," ","P","a","g","e">>, <<"-","-"," ","P","a","g","e">>,
      <<"r","e","g","u","l","a","r"," ","s","e","n","t","e","n","c","e",".">>,
      <<"l","a","b","e","l",":">>, <<"l","a","b","e","l">>, <<"A","B"," ","1">>,
      <<" ","x","."," ">>,
      Repeat("a", 98) \o <<".">>,
      Repeat("a", 99) \o <<".">>,
      Repeat("a", 100),
      <<"a">> \o Repeat("U+2013", 33) \o <<":">>,
      <<"a">> \o Repeat("U+2013", 32) \o <<".">> }

\* the line before the one asked about
PreviousLines == {<<>>, <<" ", "\t">>, <<"x">>}

NaturalBreakInit ==
    /\ \/ /\ li = 0
          /\ \E line \in BreakLines, after \in PreviousLines : lines = <<line, after>>
       \/ /\ li = 1
          /\ \E before \in PreviousLines, line \in BreakLines : lines = <<before, line>>
    /\ text = JoinLines(lines)
    /\ localChunkSize = 1
    /\ maxChunkSize = 1
    /\ currentChunk = <<>> /\ chunks = <<>> /\ written = <<>>
    /\ ChunkerIdle
    /\ result = <<>>
    /\ OcrIdle
    /\ pc = "call"

IsNaturalBreakCall ==
    /\ pc = "call"
    /\ result' = IsNaturalBreak(lines[li + 1], li, lines)
    /\ pc' = "done"
    /\ UNCHANGED <<cfgVars, ocrVars, text, segVars, chunkerVars>>

NaturalBreakNext == IsNaturalBreakCall

SpecNaturalBreak == NaturalBreakInit /\ [][NaturalBreakNext]_vars

-----------------------------------------------------------------------------
(* Local chunking of a paged document through ChunkInput *)

PagedMaxBody == 2
PagedMaxSize == 17

PageMarker(n) == PageMarkerOpen \o FormatInt(n) \o PageMarkerClose

\* lines of the body of page 1: a chapter heading, plain text, a blank line,
\* and a line longer than a page-marker line
PagedBodyLines ==
    { <<"B","A","B"," ","1">>, <<"x","x","x">>, <<>>, Repeat("x", 17) }

PagedBodies == {JoinLines(ls) : ls \in SeqsUpTo(PagedBodyLines, PagedMaxBody) \ {<<>>}}

\* what follows the marker of page 2
PagedTails == { <<"y">>, <<"y", "\n", "z">>, <<"-", " ", "y">> }

\* the marker of page 1, the body, the marker of page 2 and the rest, each
\* marker on a line of its own as processPage writes it
PagedText(body, tail) ==
    JoinLines(<<PageMarker(1), body, PageMarker(2), tail>>)

PagedInit ==
    /\ localChunkSize \in 1..PagedMaxSize
    /\ maxChunkSize = localChunkSize
    /\ aiProvider = "nil"
    /\ \E body \in PagedBodies, tail \in PagedTails :
          /\ Len(body) > localChunkSize
          /\ call = [api |-> "ChunkInput", inputType |-> "InputString",
                     input |-> PagedText(body, tail)]
    /\ text = <<>>
    /\ lines = <<>> /\ li = 0 /\ currentChunk = <<>> /\ chunks = <<>> /\ written = <<>>
    /\ filename = <<>>
    /\ textChunks = <<>>
    /\ bi = 0
    /\ records = <<>>
    /\ totalTokenUsage = NoUsage
    /\ aiCalls = <<>>
    /\ aiResults = <<>>
    /\ callLog = <<>>
    /\ writes = <<>>
    /\ segmented = <<>>
    /\ ret = NoReturn
    /\ result = <<>>
    /\ OcrIdle
    /\ pc = "call"

PagedNext == ChunkInput \/ ChunkInputOutput

SpecPaged == PagedInit /\ [][PagedNext]_vars

-----------------------------------------------------------------------------
(* CleanAndStructureContent called on its own *)

CleanMaxLines == 2

\* lines of the chunks given to CleanAndStructureContent: blank, plain, a
\* short sentence, a label, headings, bullets with each glyph, numbered
\* lines, and a page marker
CleanLinePool ==
    { <<>>, <<"x", "y">>,
      <<"a", "b", ".">>, <<"a", "b", ":">>,
      <<"B", "A", "B", " ", "1">>,
      <<"U+2022", " ", "x">>, <<" ", "-", "y", ".">>, <<"*", "z", ":">>, <<"-", " ", "A", "B", "C", "D">>,
      <<"1", ".", " ", "T">>, <<"2", ".", "x">>,
      <<"-", "-", "-", " ", "P", "a", "g", "e", " ", "1", " ", "-", "-", "-">> }

CleanChunks == {JoinLines(ls) : ls \in SeqsUpTo(CleanLinePool, CleanMaxLines) \ {<<>>}}

CleanInit ==
    /\ text \in CleanChunks
    /\ lines = SplitLines(text)
    /\ localChunkSize = 1
    /\ maxChunkSize = 1
    /\ li = 0 /\ currentChunk = <<>> /\ chunks = <<>> /\ written = <<>>
    /\ ChunkerIdle
    /\ result = <<>>
    /\ OcrIdle
    /\ pc = "call"

CleanAndStructureContentCall ==
    /\ pc = "call"
    /\ result' = CleanAndStructureContent(text)
    /\ pc' = "done"
    /\ UNCHANGED <<cfgVars, ocrVars, text, segVars, chunkerVars>>

CleanNext == CleanAndStructureContentCall

SpecClean == CleanInit /\ [][CleanNext]_vars

-----------------------------------------------------------------------------
(* OCR of the pages of PDF documents extracted at the same time *)

OcrMaxPages == 2

\* the extractions that run at the same time in one working directory, each
\* on a document of its own whose pages hold no text
Extractions == {1, 2}

\* doc.Image(pageIndex) of the document of extraction e
PageImage(e, pageIndex) == [doc |-> e, page |-> pageIndex]

\* the content of a file os.Create has just made or truncated
EmptyImage == [doc |-> 0, page |-> 0]

\* what tesseract gets when the file is not there
MissingImage == [doc |-> 0, page |-> -1]

\* extractTextWithOCR returned before tesseract ran
NotRun == [doc |-> 0, page |-> -2]

\* no file behind the path
NoFile == 0

\* fmt.Sprintf("temp_page_%d.png", pageIndex): the path is told by pageIndex
TempImagePaths == 0..(OcrMaxPages - 1)

OcrInit ==
    /\ tempFiles = [path \in TempImagePaths |-> NoFile]
    /\ inodes = <<>>
    /\ ocr \in [Extractions ->
                   {[pc |-> "render", totalPages |-> n, pageIndex |-> 0, fd |-> NoFile,
                     read |-> NotRun, got |-> <<>>] : n \in 1..OcrMaxPages}]
    /\ maxChunkSize = 1
    /\ localChunkSize = 1
    /\ text = <<>>
    /\ lines = <<>> /\ li = 0 /\ currentChunk = <<>> /\ chunks = <<>> /\ written = <<>>
    /\ ChunkerIdle
    /\ result = <<>>
    /\ pc = "extract"

\* extractTextWithOCR returns what tesseract printed for the image it read
\* (r), processPage returns, and the loop of extractTextFromDocument goes on
OcrPageDone(o, r) ==
    [o EXCEPT !.got = Append(@, [page |-> o.pageIndex, read |-> r]),
              !.pageIndex = @ + 1,
              !.fd = NoFile,
              !.read = NotRun,
              !.pc = IF o.pageIndex + 1 >= o.totalPages THEN "done" ELSE "render"]

\* img, err := doc.Image(pageIndex)
OcrRender(e) ==
    /\ ocr[e].pc = "render"
    /\ \/ ocr' = [ocr EXCEPT ![e] = OcrPageDone(@, NotRun)]
       \/ ocr' = [ocr EXCEPT ![e].pc = "create"]
    /\ UNCHANGED <<cfgVars, text, segVars, chunkerVars, result, tempFiles, inodes, pc>>

\* saveTemporaryImage: os.Create(tempPath), which truncates the file behind
\* the path if there is one and makes a new file if not
OcrCreate(e) ==
    /\ ocr[e].pc = "create"
    /\ LET path == ocr[e].pageIndex
       IN  \/ /\ ocr' = [ocr EXCEPT ![e] = OcrPageDone(@, NotRun)]
              /\ UNCHANGED <<tempFiles, inodes>>
           \/ /\ tempFiles[path] # NoFile
              /\ inodes' = [inodes EXCEPT ![tempFiles[path]] = EmptyImage]
              /\ ocr' = [ocr EXCEPT ![e].fd = tempFiles[path], ![e].pc = "encode"]
              /\ UNCHANGED tempFiles
           \/ /\ tempFiles[path] = NoFile
              /\ inodes' = Append(inodes, EmptyImage)
              /\ tempFiles' = [tempFiles EXCEPT ![path] = Len(inodes) + 1]
              /\ ocr' = [ocr EXCEPT ![e].fd = Len(inodes) + 1, ![e].pc = "encode"]
    /\ UNCHANGED <<cfgVars, text, segVars, chunkerVars, result, pc>>

\* saveTemporaryImage: png.Encode(imgFile, img) into the file opened, and
\* os.Remove(tempPath) if it fails
OcrEncode(e) ==
    /\ ocr[e].pc = "encode"
    /\ \/ /\ tempFiles' = [tempFiles EXCEPT ![ocr[e].pageIndex] = NoFile]
          /\ ocr' = [ocr EXCEPT ![e] = OcrPageDone(@, NotRun)]
          /\ UNCHANGED inodes
       \/ /\ inodes' = [inodes EXCEPT ![ocr[e].fd] = PageImage(e, ocr[e].pageIndex)]
          /\ ocr' = [ocr EXCEPT ![e].pc = "tesseract"]
          /\ UNCHANGED tempFiles
    /\ UNCHANGED <<cfgVars, text, segVars, chunkerVars, result, pc>>

\* runTesseract(tempImagePath): tesseract opens the path and reads the file
OcrTesseract(e) ==
    /\ ocr[e].pc = "tesseract"
    /\ LET path == ocr[e].pageIndex
       IN  ocr' = [ocr EXCEPT ![e].read = IF tempFiles[path] = NoFile THEN MissingImage
                                          ELSE inodes[tempFiles[path]],
                              ![e].pc = "remove"]
    /\ UNCHANGED <<cfgVars, text, segVars, chunkerVars, result, tempFiles, inodes, pc>>

\* defer os.Remove(tempImagePath), as extractTextWithOCR returns
OcrRemove(e) ==
    /\ ocr[e].pc = "remove"
    /\ tempFiles' = [tempFiles EXCEPT ![ocr[e].pageIndex] = NoFile]
    /\ ocr' = [ocr EXCEPT ![e] = OcrPageDone(@, ocr[e].read)]
    /\ UNCHANGED <<cfgVars, text, segVars, chunkerVars, result, inodes, pc>>

OcrNext ==
    \E e \in Extractions :
        \/ OcrRender(e)
        \/ OcrCreate(e)
        \/ OcrEncode(e)
        \/ OcrTesseract(e)
        \/ OcrRemove(e)

SpecOcr == OcrInit /\ [][OcrNext]_vars

-----------------------------------------------------------------------------
(* Local chunking of documents with page markers and metadata through ChunkInput *)

LocalMaxLines == 3
LocalMaxSize == 20

\* lines of the documents: the markers of pages 1 and 2, a document code, a
\* title, plain text, and a blank line
LocalLinePool ==
    { PageMarker(1), PageMarker(2),
      <<"S", "O", "P", "/", "1">>,
      <<"A", "b", "c", "d", "e", "f">>,
      <<"x">>, <<>> }

LocalTexts == {JoinLines(ls) : ls \in SeqsUpTo(LocalLinePool, LocalMaxLines) \ {<<>>}}

\* NewChunker without AI provider, with a threshold that closes a chunk at
\* every line or one that lets a marker line and a metadata line share a chunk
LocalInit ==
    /\ localChunkSize \in {1, LocalMaxSize}
    /\ maxChunkSize = localChunkSize
    /\ aiProvider = "nil"
    /\ \E t \in LocalTexts :
          call = [api |-> "ChunkInput", inputType |-> "InputString", input |-> t]
    /\ text = <<>>
    /\ lines = <<>> /\ li = 0 /\ currentChunk = <<>> /\ chunks = <<>> /\ written = <<>>
    /\ filename = <<>>
    /\ textChunks = <<>>
    /\ bi = 0
    /\ records = <<>>
    /\ totalTokenUsage = NoUsage
    /\ aiCalls = <<>>
    /\ aiResults = <<>>
    /\ callLog = <<>>
    /\ writes = <<>>
    /\ segmented = <<>>
    /\ ret = NoReturn
    /\ result = <<>>
    /\ OcrIdle
    /\ pc = "call"

LocalNext == ChunkInput \/ ChunkInputOutput

SpecLocal == LocalInit /\ [][LocalNext]_vars

-----------------------------------------------------------------------------
(* FormatLocalChunk and CleanAndStructureContent called on their own *)

FormatMaxLines == 2
FormatMaxTotal == 2

\* lines of the chunks: plain text, a blank line, a page marker, a document
\* code, and lines that hold "--- Page" with no page number after "Page"
FormatLinePool ==
    { <<"x">>, <<>>,
      <<"-", "-", "-", " ", "P", "a", "g", "e", " ", "1", " ", "-", "-", "-">>,
      <<"S", "O", "P", "/", "1">>,
      <<"-", "-", "-", " ", "P", "a", "g", "e">>,
      <<"-", "-", "-", " ", "P", "a", "g", "e", " ", "i", "i", " ", "-", "-", "-">>,
      <<"-", "-", "-", " ", "P", "a", "g", "e", "s", " ", "2", "-", "3">> }

FormatChunks == {JoinLines(ls) : ls \in SeqsUpTo(FormatLinePool, FormatMaxLines) \ {<<>>}}

FormatInit ==
    /\ text \in FormatChunks
    /\ lines = SplitLines(text)
    /\ localChunkSize = 1
    /\ maxChunkSize = 1
    /\ li = 0 /\ currentChunk = <<>> /\ chunks = <<>> /\ written = <<>>
    /\ ChunkerIdle
    /\ result = <<>>
    /\ OcrIdle
    /\ pc = "call"

FormatLocalChunkCall ==
    /\ pc = "call"
    /\ \E totalChunks \in 1..FormatMaxTotal :
          \E chunkNum \in 1..totalChunks :
              result' = FormatLocalChunk(text, chunkNum, totalChunks)
    /\ pc' = "done"
    /\ UNCHANGED <<cfgVars, ocrVars, text, segVars, chunkerVars>>

FormatNext == FormatLocalChunkCall \/ CleanAndStructureContentCall

SpecFormat == FormatInit /\ [][FormatNext]_vars

-----------------------------------------------------------------------------
(* ExtractMetadata called on its own *)

MetaMaxLines == 3

\* lines of the chunks: two document codes, a date, a document code and a
\* date, two titles, a title candidate with "Page", plain text, and a blank
\* line
MetaLinePool ==
    { <<"S", "O", "P", "/", "1", " ", "U", "U", "-", "A">>,
      <<"1", " ", "-", " ", "M", " ", "-", " ", "2", "0", "2", "4">>,
      <<"P", "P", "-", "7", " ", "2", " ", "U+2013", " ", "J", " ", "U+2013", " ", "2", "0", "2", "5">>,
      <<"A", "b", "c", "d", "e", "f">>,
      <<"G", "h", " ", "i", "j", "k">>,
      <<"P", "a", "g", "e", " ", "A", "b">>,
      <<"x", "1">>,
      <<>> }

MetaChunks == {JoinLines(ls) : ls \in SeqsUpTo(MetaLinePool, MetaMaxLines) \ {<<>>}}

MetadataInit ==
    /\ text \in MetaChunks
    /\ lines = SplitLines(text)
    /\ localChunkSize = 1
    /\ maxChunkSize = 1
    /\ li = 0 /\ currentChunk = <<>> /\ chunks = <<>> /\ written = <<>>
    /\ ChunkerIdle
    /\ result = <<>>
    /\ OcrIdle
    /\ pc = "call"

ExtractMetadataCall ==
    /\ pc = "call"
    /\ result' = ExtractMetadata(text)
    /\ pc' = "done"
    /\ UNCHANGED <<cfgVars, ocrVars, text, segVars, chunkerVars>>

MetadataNext == ExtractMetadataCall

SpecMetadata == MetadataInit /\ [][MetadataNext]_vars

-----------------------------------------------------------------------------
(* Text extraction of one PDF document, page by page, run alone *)

ExtractMaxPages == 3

\* what doc.Text(pageIndex) gives: nothing (also when it fails), white space
\* only, or text
DirectTexts == { <<>>, <<" ", "\n">>, <<"x">> }

\* what tesseract prints for a page image when it succeeds
OcrTexts == { <<>>, <<"o", "\n">> }

\* fmt.Sprintf("temp_page_%d.png", pageIndex)
TempImagePath(pageIndex) == pageIndex

ExtractInit ==
    /\ tempFiles = [path \in 0..(ExtractMaxPages - 1) |-> NoFile]
    /\ inodes = <<>>
    /\ ocr \in {[pc |-> "text", totalPages |-> n, pageIndex |-> 0, fd |-> NoFile,
                 ocrText |-> <<>>, got |-> <<>>] : n \in 1..ExtractMaxPages}
    /\ maxChunkSize = 1
    /\ localChunkSize = 1
    /\ text = <<>>
    /\ lines = <<>> /\ li = 0 /\ currentChunk = <<>> /\ chunks = <<>> /\ written = <<>>
    /\ ChunkerIdle
    /\ result = <<>>
    /\ pc = "extract"

\* processPage returns separator + text, extractTextFromDocument writes it to
\* result and goes on with the next page; how says how the text was got
\* (WritePageSkipEmpty: the faulty variant that skips a page without text)
WritePageSkipEmpty(t, how) ==
    /\ result' = IF t = <<>> THEN result
                 ELSE result \o PageSeparatorOpen \o FormatInt(ocr.pageIndex + 1)
                             \o PageSeparatorClose \o t
    /\ ocr' = [ocr EXCEPT !.got = Append(@, [text |-> t, how |-> how]),
                          !.pageIndex = @ + 1,
                          !.fd = NoFile,
                          !.ocrText = <<>>,
                          !.pc = IF ocr.pageIndex + 1 >= ocr.totalPages THEN "done" ELSE "text"]
WritePage(t, how) ==
    /\ result' = result \o PageSeparatorOpen \o FormatInt(ocr.pageIndex + 1)
                        \o PageSeparatorClose \o t
    /\ ocr' = [ocr EXCEPT !.got = Append(@, [text |-> t, how |-> how]),
                          !.pageIndex = @ + 1,
                          !.fd = NoFile,
                          !.ocrText = <<>>,
                          !.pc = IF ocr.pageIndex + 1 >= ocr.totalPages THEN "done" ELSE "text"]

\* processPage: text, err := doc.Text(pageIndex), and the test for OCR
ExtractDirect ==
    /\ ocr.pc = "text"
    /\ \E t \in DirectTexts :
          IF TrimSpace(t) = <<>>
          THEN /\ ocr' = [ocr EXCEPT !.pc = "render"]
               /\ UNCHANGED result
          ELSE WritePage(t, "direct")
    /\ UNCHANGED <<cfgVars, text, segVars, chunkerVars, tempFiles, inodes, pc>>

\* extractTextWithOCR: img, err := doc.Image(pageIndex)
ExtractRender ==
    /\ ocr.pc = "render"
    /\ \/ WritePage(<<>>, "render failed")
       \/ /\ ocr' = [ocr EXCEPT !.pc = "create"]
          /\ UNCHANGED result
    /\ UNCHANGED <<cfgVars, text, segVars, chunkerVars, tempFiles, inodes, pc>>

\* saveTemporaryImage: os.Create(tempPath)
ExtractCreate ==
    /\ ocr.pc = "create"
    /\ \/ /\ WritePage(<<>>, "create failed")
          /\ UNCHANGED <<tempFiles, inodes>>
       \/ /\ inodes' = Append(inodes, EmptyImage)
          /\ tempFiles' = [tempFiles EXCEPT ![TempImagePath(ocr.pageIndex)] = Len(inodes) + 1]
          /\ ocr' = [ocr EXCEPT !.fd = Len(inodes) + 1, !.pc = "encode"]
          /\ UNCHANGED result
    /\ UNCHANGED <<cfgVars, text, segVars, chunkerVars, pc>>

\* saveTemporaryImage: png.Encode(imgFile, img), with os.Remove(tempPath) if
\* it fails
\* (ExtractEncodeNoRemove: the faulty variant without that os.Remove)
ExtractEncodeNoRemove ==
    /\ ocr.pc = "encode"
    /\ \/ /\ WritePage(<<>>, "encode failed")
          /\ UNCHANGED <<tempFiles, inodes>>
       \/ /\ inodes' = [inodes EXCEPT ![ocr.fd] = PageImage(1, ocr.pageIndex)]
          /\ ocr' = [ocr EXCEPT !.pc = "tesseract"]
          /\ UNCHANGED <<tempFiles, result>>
    /\ UNCHANGED <<cfgVars, text, segVars, chunkerVars, pc>>
ExtractEncode ==
    /\ ocr.pc = "encode"
    /\ \/ /\ tempFiles' = [tempFiles EXCEPT ![TempImagePath(ocr.pageIndex)] = NoFile]
          /\ WritePage(<<>>, "encode failed")
          /\ UNCHANGED inodes
       \/ /\ inodes' = [inodes EXCEPT ![ocr.fd] = PageImage(1, ocr.pageIndex)]
          /\ ocr' = [ocr EXCEPT !.pc = "tesseract"]
          /\ UNCHANGED <<tempFiles, result>>
    /\ UNCHANGED <<cfgVars, text, segVars, chunkerVars, pc>>

\* runTesseract(tempImagePath): the command fails, or prints the text it
\* found in the image
ExtractTesseract ==
    /\ ocr.pc = "tesseract"
    /\ \/ ocr' = [ocr EXCEPT !.ocrText = <<>>, !.fd = NoFile, !.pc = "ocr failed"]
       \/ \E t \in OcrTexts :
             ocr' = [ocr EXCEPT !.ocrText = t, !.fd = NoFile, !.pc = "ocr done"]
    /\ UNCHANGED <<cfgVars, text, segVars, chunkerVars, result, tempFiles, inodes, pc>>

\* extractTextWithOCR returns "" or ocrText, and the deferred
\* os.Remove(tempImagePath) runs
ExtractRemove ==
    /\ ocr.pc \in {"ocr failed", "ocr done"}
    /\ tempFiles' = [tempFiles EXCEPT ![TempImagePath(ocr.pageIndex)] = NoFile]
    /\ WritePage(ocr.ocrText, ocr.pc)
    /\ UNCHANGED <<cfgVars, text, segVars, chunkerVars, inodes, pc>>

ExtractNext ==
    \/ ExtractDirect
    \/ ExtractRender
    \/ ExtractCreate
    \/ ExtractEncode
    \/ ExtractTesseract
    \/ ExtractRemove

SpecExtract == ExtractInit /\ [][ExtractNext]_vars

-----------------------------------------------------------------------------
(* A sequence of calls on one TextProcessor *)

ProcMaxCalls == 3
ProcMaxSize == 2

\* the chunk texts of the calls: two lines that one chunk holds or not, and a
\* page marker with a title
ProcTexts ==
    { <<"x", "\n", "y">>,
      <<"-", "-", "-", " ", "P", "a", "g", "e", " ", "1", " ", "-", "-", "-", "\n",
        "A", "b", "c", "d", "e", "f">> }

\* NewTextProcessor(maxChunkSize, localChunkSize)
ProcInit ==
    /\ maxChunkSize \in 1..ProcMaxSize
    /\ localChunkSize \in 1..ProcMaxSize
    /\ text = <<>>
    /\ lines = <<>> /\ li = 0 /\ currentChunk = <<>> /\ chunks = <<>> /\ written = <<>>
    /\ ChunkerIdle
    /\ result = <<>>
    /\ OcrIdle
    /\ pc = "calls"

\* a call of op with the arguments chunk, chunkNum and totalChunks (0 where
\* the function has none) that returned out
Logged(op, chunk, chunkNum, totalChunks, out) ==
    [op |-> op, chunk |-> chunk, chunkNum |-> chunkNum, totalChunks |-> totalChunks, out |-> out]

\* a call of SplitTextIntoLocalChunks: it reads localChunkSize and assigns to
\* no field of the TextProcessor
\* (CallSplitTextIntoLocalChunksGrowing: the faulty variant that keeps a
\* larger threshold for the next call)
CallSplitTextIntoLocalChunksGrowing ==
    /\ pc = "calls" /\ Len(callLog) < ProcMaxCalls
    /\ \E t \in ProcTexts :
          callLog' = Append(callLog, Logged("SplitTextIntoLocalChunks", t, 0, 0,
                                            SplitTextIntoLocalChunks(t, localChunkSize)))
    /\ localChunkSize' = localChunkSize + 2
    /\ UNCHANGED <<maxChunkSize, ocrVars, text, segVars, aiProvider, call, filename, textChunks,
                   bi, records, totalTokenUsage, aiCalls, aiResults, writes, segmented, ret,
                   result, pc>>
CallSplitTextIntoLocalChunks ==
    /\ pc = "calls" /\ Len(callLog) < ProcMaxCalls
    /\ \E t \in ProcTexts :
          callLog' = Append(callLog, Logged("SplitTextIntoLocalChunks", t, 0, 0,
                                            SplitTextIntoLocalChunks(t, localChunkSize)))
    /\ UNCHANGED <<cfgVars, ocrVars, text, segVars, aiProvider, call, filename, textChunks,
                   bi, records, totalTokenUsage, aiCalls, aiResults, writes, segmented, ret,
                   result, pc>>

\* a call of ExtractMetadata
CallExtractMetadata ==
    /\ pc = "calls" /\ Len(callLog) < ProcMaxCalls
    /\ \E t \in ProcTexts :
          callLog' = Append(callLog, Logged("ExtractMetadata", t, 0, 0, ExtractMetadata(t)))
    /\ UNCHANGED <<cfgVars, ocrVars, text, segVars, aiProvider, call, filename, textChunks,
                   bi, records, totalTokenUsage, aiCalls, aiResults, writes, segmented, ret,
                   result, pc>>

\* a call of ExtractPageRange
CallExtractPageRange ==
    /\ pc = "calls" /\ Len(callLog) < ProcMaxCalls
    /\ \E t \in ProcTexts :
          callLog' = Append(callLog, Logged("ExtractPageRange", t, 0, 0, ExtractPageRange(t)))
    /\ UNCHANGED <<cfgVars, ocrVars, text, segVars, aiProvider, call, filename, textChunks,
                   bi, records, totalTokenUsage, aiCalls, aiResults, writes, segmented, ret,
                   result, pc>>

\* a call of FormatLocalChunk
CallFormatLocalChunk ==
    /\ pc = "calls" /\ Len(callLog) < ProcMaxCalls
    /\ \E t \in ProcTexts, totalChunks \in 1..2 :
          callLog' = Append(callLog, Logged("FormatLocalChunk", t, 1, totalChunks,
                                            FormatLocalChunk(t, 1, totalChunks)))
    /\ UNCHANGED <<cfgVars, ocrVars, text, segVars, aiProvider, call, filename, textChunks,
                   bi, records, totalTokenUsage, aiCalls, aiResults, writes, segmented, ret,
                   result, pc>>

ProcNext ==
    \/ CallSplitTextIntoLocalChunks
    \/ CallExtractMetadata
    \/ CallExtractPageRange
    \/ CallFormatLocalChunk

SpecProcessor == ProcInit /\ [][ProcNext]_vars

-----------------------------------------------------------------------------
(* Properties of SplitTextIntoLocalChunks *)

\* the chunks cs, from the k-th on, are found in t from position pos on, in
\* order, with nothing but white space before, between and after them
RECURSIVE ChunksCoverFrom(_, _, _, _)
ChunksCoverFrom(t, pos, cs, k) ==
    LET p == pos + Span(t, pos, UnicodeSpace)
    IN  IF k > Len(cs) THEN p = Len(t) + 1
        ELSE /\ cs[k] # <<>>
             /\ OccursAt(t, cs[k], p)
             /\ ChunksCoverFrom(t, p + Len(cs[k]), cs, k + 1)

\* C1: the chunks returned, in output order, are pieces of the input text in
\* its original order, and everything of the text outside the chunks is white
\* space: putting the trimmed white space back between them gives the text.
C1_Reconstruction ==
    pc = "done" => ChunksCoverFrom(text, 1, chunks, 1)

\* C1 witness: a text split into several chunks with white space trimmed away
C1_Witness ==
    /\ pc = "done"
    /\ Len(chunks) >= 2
    /\ StrLen(JoinLines(chunks)) + 1 < StrLen(text)

\* C2: no chunk is empty or white space only, every chunk equals its own
\* trimmed form, and a text that is empty or white space only gives no chunk.
C2_NonEmptyTrimmed ==
    /\ \A k \in 1..Len(chunks) :
          /\ chunks[k] # <<>>
          /\ TrimSpace(chunks[k]) = chunks[k]
    /\ (pc = "done" /\ TrimSpace(text) = <<>>) => chunks = <<>>

\* C2 witness: a buffer that had leading or trailing white space was flushed
C2_Witness ==
    /\ pc = "done"
    /\ Len(chunks) >= 1
    /\ text[1] \in UnicodeSpace
    /\ TrimSpace(text) # <<>>

\* C3: a chunk is longer than the threshold by at most the length of the last
\* line written to the buffer it was flushed from.
C3_BoundedGrowth ==
    [][ Len(chunks') > Len(chunks) =>
           StrLen(chunks'[Len(chunks')]) <= localChunkSize + StrLen(written') ]_vars

\* C3 witness: a chunk longer than the threshold was returned
C3_Witness ==
    /\ pc = "done"
    /\ \E k \in 1..Len(chunks) : StrLen(chunks[k]) > localChunkSize

\* the stepwise run ends with the value of the function
SplitStepsAgree ==
    pc = "done" => chunks = SplitTextIntoLocalChunks(text, localChunkSize)

-----------------------------------------------------------------------------
(* Properties of the Chunker *)

\* the records rs carry the indices 1, 2, ..., Len(rs), in this order
DenseIndices(rs) == \A k \in 1..Len(rs) : rs[k].ChunkIndex = k

\* the call got a text to chunk: the input type is supported
GotText == call.inputType \in SupportedInputTypes

\* C4: on the local path (no AI provider) the records ChunkInput returns
\* carry the chunk indices 1, 2, ..., n in order, n being their number.
C4_LocalIndicesDense ==
    (aiProvider = "nil" /\ call.api = "ChunkInput" /\ ret.state = "returned")
        => DenseIndices(ret.chunks)

\* C4 witness: ChunkInput on the local path returned several records
C4_Witness ==
    /\ aiProvider = "nil" /\ call.api = "ChunkInput"
    /\ ret.state = "returned"
    /\ Len(ret.chunks) >= 2

\* C5: on the AI path (createAIChunks, createAIChunksWithUsage) the records
\* carry the chunk indices 1, 2, ..., n in order, however many white-space
\* blocks were skipped.
C5_AIIndicesDense ==
    (aiProvider # "nil" /\ pc \in {"createAIChunks", "createAIChunksWithUsage", "output"})
        => DenseIndices(records)

\* C6: ChunkInput and ChunkInputWithUsage, given a text that is empty or
\* white space only, return an error and no chunk list, and have segmented
\* nothing, called no AI provider and written no file.
C6_BlankTextRejected ==
    (GotText /\ ret.state # "running" /\ TrimSpace(ProcessInput(call).text) = <<>>)
        => /\ ret.state = "returned"
           /\ ret.err # ""
           /\ ret.chunks = <<>>
           /\ segmented = <<>>
           /\ textChunks = <<>> /\ records = <<>>
           /\ aiCalls = <<>>
           /\ writes = <<>>

\* C6 witness: a call with an AI provider and a text of white space and line
\* breaks has returned
C6_Witness ==
    /\ aiProvider # "nil"
    /\ ret.state = "returned"
    /\ call.inputType = "InputString"
    /\ Len(call.input) >= 2
    /\ TrimSpace(call.input) = <<>>

\* the number of blocks, from the k-th on, that are not white space only
RECURSIVE NonBlankBlocks(_, _)
NonBlankBlocks(bs, k) ==
    IF k > Len(bs) THEN 0
    ELSE (IF TrimSpace(bs[k]) # <<>> THEN 1 ELSE 0) + NonBlankBlocks(bs, k + 1)

\* C7: on the AI path the call does not fail because an AI call failed, and
\* when the loop is over there is one record for every block of
\* SplitTextIntoChunks that is not white space only, whichever AI calls
\* failed.
C7_OneRecordPerBlock ==
    (aiProvider # "nil" /\ GotText /\ TrimSpace(text) # <<>>)
        => /\ ret.state # "panicked"
           /\ pc = "output" =>
                 Len(records) = NonBlankBlocks(SplitTextIntoChunks(text, maxChunkSize), 1)

\* what the formatter makes of a line that is neither the first nor the last
\* line of its chunk, without the line break
Rendered(line) == TrimSpace(CleanLine(line, 1, 3))

\* every non-blank line of block is in txt, as the formatter writes it
HoldsLinesOf(txt, block) ==
    \A k \in 1..Len(SplitLines(block)) :
        TrimSpace(SplitLines(block)[k]) # <<>> => Contains(txt, Rendered(SplitLines(block)[k]))

\* C8: the text of a record made by the local fallback holds every
\* non-blank line of the block the record was made for.
C8_FallbackHoldsBlock ==
    aiProvider # "nil" =>
        \A k \in 1..Len(records) :
            records[k].Text # AIResponse
                => HoldsLinesOf(records[k].Text, textChunks[records[k].ChunkIndex])

-----------------------------------------------------------------------------
(* Properties of ExtractPageRange *)

\* the number a sequence of digits stands for
RECURSIVE NumericValue(_)
NumericValue(digits) ==
    IF digits = <<>> THEN 0
    ELSE 10 * NumericValue(SubSeq(digits, 1, Len(digits) - 1))
         + (CHOOSE d \in 0..9 : DigitSeq[d + 1] = digits[Len(digits)])

\* the texts that say "Page N" for a marker whose digits are given
SinglePage(digits) == {PageWord \o digits, PageWord \o FormatInt(NumericValue(digits))}

\* the page ranges the statement allows for the markers found, in order
PageRangesFor(matches) ==
    IF Len(matches) = 0 THEN {<<>>}
    ELSE IF Len(matches) = 1 THEN {PageWord \o matches[1]}
    ELSE IF NumericValue(matches[1]) = NumericValue(matches[Len(matches)])
    THEN SinglePage(matches[1]) \cup SinglePage(matches[Len(matches)])
    ELSE {PageWord \o matches[1] \o <<EnDash>> \o matches[Len(matches)]}

\* C9: ExtractPageRange gives "" without a marker, "Page N" for one marker,
\* and for several the first and last in order of appearance: "Page N" when
\* their numeric values are equal, "Page <first>-<last>" (en-dash) otherwise.
C9_PageRange ==
    pc = "done" => result \in PageRangesFor(FindPageMarkers(text, 1))

-----------------------------------------------------------------------------
(* Properties of IsNaturalBreak *)

\* the statement's rule for a line after a blank line, "shorter than 100
\* characters" counting characters
ShortHeadingAfterBlank(trimmed, lineIndex, allLines) ==
    /\ lineIndex > 0
    /\ TrimSpace(allLines[lineIndex]) = <<>>
    /\ Len(trimmed) < NaturalBreakMaxLen
    /\ \/ ToUpper(trimmed) = trimmed
       \/ HasSuffix(trimmed, <<":">>)
       \/ HasSuffix(trimmed, <<".">>)

\* the statement's characterisation of a natural break
StatedNaturalBreak(trimmed, lineIndex, allLines) ==
    \/ trimmed = <<>>
    \/ MatchHeadingPattern(trimmed)
    \/ HasBulletPrefix(trimmed)
    \/ MatchNumberedList(trimmed)
    \/ Contains(trimmed, PageSeparator)
    \/ ShortHeadingAfterBlank(trimmed, lineIndex, allLines)

\* C10: IsNaturalBreak is true exactly when the trimmed line is empty, or
\* matches a heading pattern, or starts with a bullet glyph or "<digits>.",
\* or contains "--- Page", or follows a blank line, is shorter than 100
\* characters and is upper case or ends with ":" or "."; false otherwise.
C10_NaturalBreakExact ==
    pc = "done" => (result <=> StatedNaturalBreak(TrimSpace(lines[li + 1]), li, lines))

-----------------------------------------------------------------------------
(* Properties of local chunking of a paged document *)

PageOne == PageWord \o <<"1">>
PageOneToTwo == PageWord \o <<"1", EnDash, "2">>

\* the page range of the first chunk: "Page 1", or "Page 1-2" (en-dash) when
\* the marker of page 2 is in the chunk
FirstPageRange(chunk) ==
    IF Contains(chunk, PageMarker(2)) THEN PageOneToTwo ELSE PageOne

\* C11: for a text that starts with the marker line of page 1, has more than
\* localChunkSize characters of body before the marker line of page 2 and
\* non-blank content after it, ChunkInput without AI provider makes at least
\* 2 records, the page range of the first record and the "Page Range" line
\* of its text are "Page 1" ("Page 1-2" if the marker of page 2 is in the
\* first chunk), and the chunk indices are 1, 2, ... without gaps.
C11_PagedScenario ==
    pc # "call" =>
        /\ ret.state # "panicked"
        /\ Len(records) >= 2
        /\ records[1].PageRange =
               FirstPageRange(SplitTextIntoLocalChunks(text, localChunkSize)[1])
        /\ Contains(records[1].Text,
                    <<"\n">> \o PageRangeLabel \o records[1].PageRange \o <<"\n">>)
        /\ DenseIndices(records)
        /\ (ret.state = "returned" /\ ret.err = "") => ret.chunks = records

\* C11 witness: the call returned three or more records, the first of them
\* holding the marker of page 1 and body lines
C11_Witness ==
    /\ ret.state = "returned" /\ ret.err = ""
    /\ Len(ret.chunks) >= 3
    /\ localChunkSize >= Len(PageMarker(1)) + 1
    /\ Contains(ret.chunks[1].Text, <<"x", "x", "x">>)

-----------------------------------------------------------------------------
(* Properties of the token usage *)

\* the usage reported by the calls that succeeded, from the k-th call on,
\* summed field by field
RECURSIVE SumReported(_, _)
SumReported(rs, k) ==
    IF k > Len(rs) THEN NoUsage
    ELSE [PromptTokens |->
              (IF rs[k].err THEN 0 ELSE rs[k].usage.PromptTokens)
              + SumReported(rs, k + 1).PromptTokens,
          CompletionTokens |->
              (IF rs[k].err THEN 0 ELSE rs[k].usage.CompletionTokens)
              + SumReported(rs, k + 1).CompletionTokens,
          TotalTokens |->
              (IF rs[k].err THEN 0 ELSE rs[k].usage.TotalTokens)
              + SumReported(rs, k + 1).TotalTokens]

\* C12: the TokenUsage ChunkInputWithUsage returns is, field by field, the
\* sum of the usage reported for the blocks whose AI call succeeded; failed
\* calls add nothing, and it is all zeros without an AI provider or with a
\* provider that has no usage tracking.
C12_TokenUsageIsSum ==
    (call.api = "ChunkInputWithUsage" /\ ret.state = "returned" /\ ret.result)
        => /\ Len(aiResults) = Len(aiCalls)
           /\ ret.usage = IF aiProvider = "usage" THEN SumReported(aiResults, 1) ELSE NoUsage

\* C12 witness: a result whose usage sums two different reports, with a
\* failed call among the calls
C12_Witness ==
    /\ call.api = "ChunkInputWithUsage" /\ ret.state = "returned" /\ ret.result
    /\ aiProvider = "usage"
    /\ \E i, j, k \in 1..Len(aiResults) :
          /\ aiResults[i].err
          /\ ~aiResults[j].err /\ ~aiResults[k].err
          /\ aiResults[j].usage # aiResults[k].usage

-----------------------------------------------------------------------------
(* Properties of concurrent extractions *)

\* the file behind the temporary path of extraction e holds the image e
\* rendered for its current page
OwnImageInPlace(e) ==
    /\ tempFiles[ocr[e].pageIndex] # NoFile
    /\ inodes[tempFiles[ocr[e].pageIndex]] = PageImage(e, ocr[e].pageIndex)

\* C13: two PDF extractions that need OCR and run at the same time in one
\* working directory do not interfere: from the moment an extraction has
\* saved its page image until its OCR has read it, the temporary file is
\* there and holds that image, and every OCR run has read the image its own
\* extraction rendered for the page.
C13_OcrIsolation ==
    \A e \in Extractions :
        /\ ocr[e].pc = "tesseract" => OwnImageInPlace(e)
        /\ \A k \in 1..Len(ocr[e].got) :
              ocr[e].got[k].read \in {NotRun, PageImage(e, ocr[e].got[k].page)}

-----------------------------------------------------------------------------
(* Properties of the break points of SplitTextIntoLocalChunks *)

\* a natural-break line comes after the first k lines
NaturalBreakAhead(k) ==
    \E j \in (k + 1)..Len(lines) : IsNaturalBreak(TrimSpace(lines[j]), j - 1, lines)

\* the line that comes after the first k lines is a natural break
NaturalBreakFollows(k) ==
    k < Len(lines) /\ IsNaturalBreak(TrimSpace(lines[k + 1]), k, lines)

\* C14: natural breaks are the preferred exit points: a chunk is ended before
\* a natural-break line, which then starts the following chunk, and the
\* forced break, taken after a line was appended, is a last resort: it ends a
\* chunk only where a natural-break line comes next or where no natural-break
\* line is left to wait for.
C14_NaturalBreakPreferred ==
    [][ (pc = "append" /\ Len(chunks') > Len(chunks))
            => (NaturalBreakFollows(li') \/ ~NaturalBreakAhead(li')) ]_vars

\* the blocks from the k-th on, each trimmed, without those that were white
\* space only
RECURSIVE TrimmedBlocks(_, _)
TrimmedBlocks(bs, k) ==
    IF k > Len(bs) THEN <<>>
    ELSE AppendNonEmpty(<<>>, TrimSpace(bs[k])) \o TrimmedBlocks(bs, k + 1)

-----------------------------------------------------------------------------
(* Properties of SplitTextIntoChunks *)

\* the last line of a block, which ends with a line break
LastLineOf(block) ==
    SplitLines(SubSeq(block, 1, Len(block) - 1))[Len(SplitLines(SubSeq(block, 1, Len(block) - 1)))]

\* the stepwise run ends with the value of the function
BlocksStepsAgree ==
    pc = "done" => chunks = SplitTextIntoChunks(text, maxChunkSize)

\* a block is closed in a step exactly when the builder with the line
\* written exceeds maxChunkSize, and the block is that builder
BlockClosedWhenExceeded ==
    pc = "append" /\ pc' = "append" =>
        IF StrLen(currentChunk \o lines[li + 1] \o <<"\n">>) > maxChunkSize
        THEN chunks' = Append(chunks, currentChunk \o lines[li + 1] \o <<"\n">>)
        ELSE chunks' = chunks

\* C16: SplitTextIntoChunks closes a block exactly when the buffer exceeds
\* maxChunkSize after a line was appended, whatever the line holds; the
\* blocks returned, concatenated, are the text followed by one line break;
\* and every block but the last is longer than maxChunkSize, by at most the
\* length of its last line plus one.
C16_StrictlySizeBased ==
    /\ [][BlockClosedWhenExceeded]_vars
    /\ [](pc = "done" =>
            /\ Concat(chunks) = text \o <<"\n">>
            /\ \A k \in 1..(Len(chunks) - 1) :
                  /\ StrLen(chunks[k]) > maxChunkSize
                  /\ StrLen(chunks[k]) <= maxChunkSize + StrLen(LastLineOf(chunks[k])) + 1)

\* C16 witness: several blocks, one of them of two lines the second of which
\* is a natural break, and a last block that did not exceed maxChunkSize
C16_Witness ==
    /\ pc = "done"
    /\ Len(chunks) >= 2
    /\ StrLen(chunks[Len(chunks)]) <= maxChunkSize
    /\ \E k \in 1..(Len(chunks) - 1) : Contains(chunks[k], <<"\n", "U+2022">>)

-----------------------------------------------------------------------------
(* Properties of the calls to the AI provider *)

\* the first n of the blocks bs that are not white space only, in order
NonBlankAmong(bs, n) ==
    SelectSeq(SubSeq(bs, 1, n), LAMBDA b : TrimSpace(b) # <<>>)

\* the calls made so far are the non-blank blocks the loop has passed, one
\* call each, in order, and each call has got one answer
AICallsFollowBlocks ==
    /\ aiCalls = NonBlankAmong(textChunks, bi)
    /\ Len(aiResults) = Len(aiCalls)

\* the call is over: it returned or it panicked
CallOver == ret.state # "running"

\* C17: on the AI path the provider is called exactly once for each block
\* that is not white space only, in document order, with the text of the
\* block; never a second time after a failure, never for a block of white
\* space, and never when the input is rejected as empty.
C17_OneCallPerBlock ==
    /\ AICallsFollowBlocks
    /\ (CallOver /\ GotText /\ aiProvider # "nil")
          => aiCalls = NonBlankAmong(SplitTextIntoChunks(ProcessInput(call).text, maxChunkSize),
                                     Len(SplitTextIntoChunks(ProcessInput(call).text, maxChunkSize)))
    /\ (CallOver /\ GotText /\ TrimSpace(ProcessInput(call).text) = <<>>) => aiCalls = <<>>

\* the record for the block with the given chunk index, as its own text and
\* the answer to its own AI call determine it
RecordFromOwnAnswer(block, index, answer) ==
    ChunkData(filename, index, ExtractPageRange(block),
              IF answer.err THEN CreateLocalIntelligentChunk(block, localChunkSize)
              ELSE AIResponse)

\* every record made is determined by its own block and its own answer
RecordsBlockwise ==
    \A k \in 1..Len(IF aiProvider # "nil" THEN records ELSE <<>>) :
        records[k] = RecordFromOwnAnswer(textChunks[records[k].ChunkIndex],
                                         records[k].ChunkIndex, aiResults[k])

\* C18: a failed AI call for one block does not affect the other blocks: of
\* two runs over the same text that differ only in whether the call for one
\* block fails, both produce, for every other block, the same record (file
\* name, chunk index, page range, text).  In one run: every record is
\* determined by its own block and the answer to its own call, and when the
\* call is over every non-blank block has its record, whichever calls
\* failed; a call that ends in a panic produces no record, so the block
\* whose failed call led to it must be the only non-blank block.
C18_SiblingsUnaffected ==
    aiProvider # "nil" =>
        /\ RecordsBlockwise
        /\ CallOver =>
              IF ret.state = "panicked"
              THEN Len(NonBlankAmong(textChunks, Len(textChunks))) <= 1
              ELSE Len(records) = Len(NonBlankAmong(textChunks, Len(textChunks)))

-----------------------------------------------------------------------------
(* Properties of CleanAndStructureContent *)

\* the structured content res has the line "### <trimmed>"
HasSubHeading(res, trimmed) ==
    Contains(<<"\n">> \o res \o <<"\n">>,
             <<"\n", "#", "#", "#", " ">> \o trimmed \o <<"\n">>)

\* the heading rules of the pattern classifier: the heading patterns, and
\* the short line after a blank line
ClassifiedAsHeading(trimmed, lineIndex, allLines) ==
    \/ MatchHeadingPattern(trimmed)
    \/ LooksLikeHeadingAfterBlank(trimmed, lineIndex, allLines)

\* C19: the formatter's heading classification uses the rule set of the
\* pattern classifier: a line that is no page-marker line is written as a
\* "### " sub-heading by CleanAndStructureContent only if the heading rules
\* of the pattern classifier hold for it, so a short sentence that ends with
\* "." and follows a non-blank line stays plain text.
C19_HeadingRulesShared ==
    pc = "done" =>
        \A k \in 1..Len(lines) :
            (/\ TrimSpace(lines[k]) # <<>>
             /\ ~Contains(lines[k], PageSeparator)
             /\ HasSubHeading(result, TrimSpace(lines[k])))
                => ClassifiedAsHeading(TrimSpace(lines[k]), k - 1, lines)

\* the structured content res has the line l
HasLine(res, l) == Contains(<<"\n">> \o res \o <<"\n">>, <<"\n">> \o l \o <<"\n">>)

\* C20: CleanAndStructureContent writes every line whose trimmed text starts
\* with a bullet glyph (the bullet U+2022, "-" or "*") and that is no
\* page-marker line as "- " and the text after the glyph, the glyph removed
\* completely, whatever the line ends with.
C20_BulletsNormalized ==
    pc = "done" =>
        \A k \in 1..Len(lines) :
            (HasBulletPrefix(TrimSpace(lines[k])) /\ ~Contains(lines[k], PageSeparator))
                => HasLine(result, <<"-", " ">> \o TrimSpace(Tail(TrimSpace(lines[k]))))

\* C21: CleanAndStructureContent passes numbered-list lines through verbatim:
\* a line whose trimmed text starts with digits and "." and that is no
\* page-marker line is written as that trimmed text on a line of its own, and
\* not as a "### " sub-heading.
C21_NumberedLinesVerbatim ==
    pc = "done" =>
        \A k \in 1..Len(lines) :
            (MatchNumberedList(TrimSpace(lines[k])) /\ ~Contains(lines[k], PageSeparator))
                => /\ HasLine(result, TrimSpace(lines[k]))
                   /\ ~HasSubHeading(result, TrimSpace(lines[k]))

-----------------------------------------------------------------------------
(* Properties of FormatLocalChunk *)

\* what the text of a record starts with when it is chunk chunkNum of
\* totalChunks, with page range pageRange and metadata lines metadata: the
\* top-level header, the metadata section and the header of the content
FormattedHead(chunkNum, totalChunks, pageRange, metadata) ==
    <<"#", " ", "D", "o", "c", "u", "m", "e", "n", "t", " ", "C", "h", "u", "n", "k", "\n", "\n">>
    \o <<"#", "#", " ", "M", "e", "t", "a", "d", "a", "t", "a", "\n">>
    \o <<"-", " ", "*", "*", "C", "h", "u", "n", "k", " ", "N", "u", "m", "b", "e", "r", "*", "*", ":", " ">>
    \o FormatInt(chunkNum) \o <<" ", "o", "f", " ">> \o FormatInt(totalChunks) \o <<"\n">>
    \o (IF pageRange = <<>> THEN <<>>
        ELSE <<"-", " ", "*", "*", "P", "a", "g", "e", " ", "R", "a", "n", "g", "e", "*", "*", ":", " ">>
             \o pageRange \o <<"\n">>)
    \o metadata
    \o <<"\n", "#", "#", " ", "C", "o", "n", "t", "e", "n", "t", "\n", "\n">>

\* the record r of totalChunks records is the formatted chunk
RecordFormatted(r, chunk, totalChunks) ==
    /\ r.PageRange = ExtractPageRange(chunk)
    /\ r.Text = FormattedHead(r.ChunkIndex, totalChunks, r.PageRange, ExtractMetadata(chunk))
                \o CleanAndStructureContent(chunk)
    /\ (r.PageRange = <<>>) =>
           ~Contains(r.Text, <<"*", "*", "P", "a", "g", "e", " ", "R", "a", "n", "g", "e", "*", "*">>)

RecordsFormatted(rs, cs) ==
    /\ Len(rs) = Len(cs)
    /\ \A j \in 1..Len(rs) : RecordFormatted(rs[j], cs[j], Len(rs))

\* C22: the text of every record ChunkInput returns on the local path is, in
\* this order: the top-level header, the metadata section whose first line
\* states the record's chunk_index of the number of records returned, a
\* "Page Range" line with the page range of the chunk if and only if that is
\* not empty, the lines of ExtractMetadata, and the content section; the
\* record's page_range is the value of the "Page Range" line.
C22_FormatLayout ==
    (pc # "call" /\ ret.state = "returned" /\ ret.err = "") =>
        RecordsFormatted(ret.chunks, SplitTextIntoLocalChunks(text, localChunkSize))

\* C22 witness: two or more records returned, the first with a page range
\* and a metadata line, another one without page range
C22_Witness ==
    /\ ret.state = "returned" /\ ret.err = ""
    /\ Len(ret.chunks) >= 2
    /\ ret.chunks[1].PageRange # <<>>
    /\ Contains(ret.chunks[1].Text, DocCodeLabel)
    /\ \E j \in 2..Len(ret.chunks) : ret.chunks[j].PageRange = <<>>

\* C23: FormatLocalChunk and CleanAndStructureContent return a result for
\* every chunk and never abort with a run-time failure, also for a chunk with
\* a line that holds "--- Page" and no digits after "Page".
C23_FormatterNeverAborts ==
    pc = "done" => result # Panic

-----------------------------------------------------------------------------
(* Properties of ExtractMetadata *)

\* the number of places where p occurs in s
Occurrences(s, p) == Cardinality({k \in 1..Len(s) : OccursAt(s, p, k)})

\* the lines an entry of metadata takes: none without matches, else the
\* label, the listed matches and a line end
EntryLines(label, listed) ==
    IF listed = <<>> THEN <<>> ELSE label \o listed \o <<"\n">>

\* res is what the claim says of a chunk with the document codes codes, the
\* dates dates and the surviving title candidates titles
MetadataAsClaimed(res, codes, dates, titles) ==
    /\ res # Panic
    /\ Occurrences(res, <<"*", "*", "D", "o", "c", "u", "m", "e", "n", "t", " ", "C", "o", "d", "e", "*", "*">>)
           = (IF codes = <<>> THEN 0 ELSE 1)
    /\ Occurrences(res, <<"*", "*", "D", "a", "t", "e", "*", "*">>)
           = (IF dates = <<>> THEN 0 ELSE 1)
    /\ Occurrences(res, <<"*", "*", "D", "o", "c", "u", "m", "e", "n", "t", " ", "T", "i", "t", "l", "e", "*", "*">>)
           = (IF titles = <<>> THEN 0 ELSE 1)
    /\ res = EntryLines(DocCodeLabel, JoinComma(codes))
             \o EntryLines(DateLabel, JoinComma(dates))
             \o EntryLines(TitleLabel, IF titles = <<>> THEN <<>> ELSE titles[1])
    /\ (codes = <<>> /\ dates = <<>> /\ titles = <<>>) => res = <<>>

\* C24: ExtractMetadata never fails and returns at most one entry of each
\* kind, in the order Document Code, Date, Document Title: the Document Code
\* entry lists all code matches in order of appearance, the Date entry all
\* date matches, the Document Title entry the first surviving title candidate
\* only, and the result is empty when no pattern matches.
C24_MetadataEntries ==
    pc = "done" =>
        MetadataAsClaimed(result, FindDocCodes(text, 1), FindDates(text, 1),
                          FilterTitles(FindTitles(text, 1)))

\* C24 witness: a chunk with a document code, a date and two surviving title
\* candidates, and a result with the three entries
C24_Witness ==
    /\ pc = "done"
    /\ Len(FilterTitles(FindTitles(text, 1))) >= 2
    /\ Contains(result, DocCodeLabel)
    /\ Contains(result, DateLabel)
    /\ Contains(result, TitleLabel)

\* the title an ExtractMetadata result reports: what stands between the
\* title label and the line end that closes the result
ReportedTitle(res) ==
    LET k == CHOOSE x \in 1..Len(res) : OccursAt(res, TitleLabel, x)
    IN  SubSeq(res, k + Len(TitleLabel), Len(res) - 1)

\* title is the text of one line of ls: a capital letter followed by letters
\* and spaces, of at most 50 characters, without "Page" and "---"
StandaloneTitle(title, ls) ==
    /\ ~Contains(title, <<"\n">>)
    /\ \E k \in 1..Len(ls) : TrimSpace(ls[k]) = title
    /\ title[1] \in UpperChars
    /\ \A k \in 2..Len(title) : title[k] \in UpperChars \cup LowerChars \cup {" "}
    /\ Len(title) <= 50
    /\ ~Contains(title, <<"P", "a", "g", "e">>)
    /\ ~Contains(title, <<"-", "-", "-">>)

\* C25: the Document Title ExtractMetadata reports is the text of one
\* standalone line of the chunk, with no line break, made of a capital letter
\* followed by letters and spaces, at most 50 long, without "Page" and "---";
\* every line of the result is one metadata entry.
C25_TitleIsOneLine ==
    (pc = "done" /\ Contains(result, TitleLabel)) =>
        /\ StandaloneTitle(ReportedTitle(result), lines)
        /\ \A k \in 1..Len(SplitLines(result)) :
               \/ SplitLines(result)[k] = <<>>
               \/ HasPrefix(SplitLines(result)[k], <<"-", " ", "*", "*">>)

-----------------------------------------------------------------------------
(* Properties of the extraction of one PDF document *)

\* the markers of pages 1..n, as ExtractPageRange finds them
RECURSIVE MarkerNumbers(_)
MarkerNumbers(n) == IF n = 0 THEN <<>> ELSE Append(MarkerNumbers(n - 1), FormatInt(n))

\* the marker of page k + 1 and the text of that page, for the pages from
\* the k-th (0-based) on
RECURSIVE MarkedPages(_, _)
MarkedPages(got, k) ==
    IF k >= Len(got) THEN <<>>
    ELSE <<"-", "-", "-", " ", "P", "a", "g", "e", " ">> \o FormatInt(k + 1)
         \o <<" ", "-", "-", "-">> \o <<"\n", "\n">> \o got[k + 1].text
         \o (IF k + 1 < Len(got) THEN <<"\n", "\n">> ELSE <<>>)
         \o MarkedPages(got, k + 1)

\* C26: for a PDF with N pages the text extractTextFromDocument produces
\* holds exactly N page markers "--- Page k ---", numbered 1..N in
\* increasing order, one before the text of each page, whatever became of
\* the direct extraction and the OCR of the pages; a page whose extraction
\* and OCR both fail has its marker, followed by empty text.
C26_OneMarkerPerPage ==
    /\ FindPageMarkers(result, 1) = MarkerNumbers(ocr.pageIndex)
    /\ Len(ocr.got) = ocr.pageIndex
    /\ ocr.pc = "done" =>
          /\ ocr.pageIndex = ocr.totalPages
          /\ result = IF ocr.got = <<>> THEN <<>>
                      ELSE <<"\n", "\n">> \o MarkedPages(ocr.got, 0)

\* C26 witness: a document of three pages extracted, one page with
\* text, one where OCR failed and one that could not be rendered
C26_Witness ==
    /\ ocr.pc = "done"
    /\ ocr.totalPages >= 3
    /\ \E i, j, k \in 1..Len(ocr.got) :
          /\ ocr.got[i].how = "direct"
          /\ ocr.got[j].how = "ocr failed"
          /\ ocr.got[k].how = "render failed"

-----------------------------------------------------------------------------
(* Properties of the records ChunkInput returns *)

\* a ChunkInput call with a supported input type has got a text that is not
\* white space only
NonBlankInput ==
    /\ call.api = "ChunkInput"
    /\ call.inputType \in {"InputPDF", "InputTXT", "InputString"}
    /\ pc # "call"
    /\ TrimSpace(text) # <<>>

\* createChunks has made one record or more whenever it has returned, and a
\* call that returns no error returns one record or more
SomeRecord ==
    /\ pc = "output" => Len(records) >= 1
    /\ (pc = "done" /\ ret.state = "returned" /\ ret.err = "") => Len(ret.chunks) >= 1

\* C27: for a text with a character that is not white space and a supported
\* input type, ChunkInput does not abort, createChunks hands one record or
\* more to the output step (which returns them with a nil error for
\* OutputJSON), and a successful call never returns an empty list, without
\* and with AI provider.
C27_AtLeastOneRecord ==
    NonBlankInput => (ret.state # "panicked" /\ SomeRecord)

\* what holds of C27 also where CleanAndStructureContent aborts
C27_UnlessAborted ==
    NonBlankInput => SomeRecord

\* the chunk indices of the records rs are positive and grow from record to
\* record
IndicesIncrease(rs) ==
    /\ \A k \in 1..Len(rs) : rs[k].ChunkIndex >= 1
    /\ \A j, k \in 1..Len(rs) : j < k => rs[j].ChunkIndex < rs[k].ChunkIndex

\* C28: on every path (local, AI, AI with usage tracking) the chunk_index
\* values of the records made and returned are positive and strictly
\* increasing in record order, and saveChunksToFiles writes no file of a call
\* twice.
C28_IndicesStrictlyIncrease ==
    /\ IndicesIncrease(records)
    /\ IndicesIncrease(ret.chunks)
    /\ \A j, k \in 1..Len(writes) : j # k => writes[j] # writes[k]

\* C28 witness: a call with an AI provider has returned two or more records
\* and saved the two files of each
C28_Witness ==
    /\ aiProvider # "nil"
    /\ ret.state = "returned" /\ ret.err = ""
    /\ Len(ret.chunks) >= 2
    /\ Len(writes) = 2 * Len(ret.chunks)

-----------------------------------------------------------------------------
(* Properties of a sequence of calls on one TextProcessor *)

\* the calls a and b are calls of the same function with the same arguments
SameCall(a, b) ==
    /\ a.op = b.op
    /\ a.chunk = b.chunk
    /\ a.chunkNum = b.chunkNum
    /\ a.totalChunks = b.totalChunks

=============================================================================
